---- MODULE Spec2Model ----
(***************************************************************************)
(* Model of serac's BoundaryIntegral facade (boundary_integral.hpp), of    *)
(* the fixed-shape tensor / zero-sentinel algebra (tensor.hpp) and of the  *)
(* boundary condition manager (boundary_condition_manager.hpp).            *)
(*                                                                         *)
(* Five specifications share the module:                                   *)
(*   Spec        - the life of one BoundaryIntegral: construction (Init),  *)
(*                 Mult / GradientMult / ComputeElementGradients calls and *)
(*                 member-by-member destruction;                           *)
(*   SpecTensor  - the pure tensor operators applied to bounded inputs;    *)
(*   SpecMatrix  - the square-matrix functions applied to bounded inputs;  *)
(*   SpecFilter  - one FilterView loop over the generic conditions;        *)
(*   SpecManager - registrations and queries of the essential DOF lists.   *)
(*                                                                         *)
(* Doubles are modelled by integers, or by exact quotients where the code  *)
(* divides or halves (no rounding is involved in any property stated       *)
(* here).  A tensor<T, n...> is a record                                   *)
(*   [kind |-> "tensor", shape |-> <<n...>>, data |-> [Idx(shape) -> T]]   *)
(* indexed by 0-based multi-indices, a double is [kind |-> "double", ...]  *)
(* and the sentinel `zero` is [kind |-> "zero"].                           *)
(***************************************************************************)
EXTENDS Integers, Sequences, FiniteSets, TLC

VARIABLES
  exec,        \* template parameter ExecutionSpace of the Integral
  dim,         \* template parameter dim of the constructor
  phase,       \* "configured" | "destroying" | "destroyed"
  ctorError,   \* TRUE iff the constructor raised an error
  kernels,     \* the std::function members: slot -> [state, ptr, view]
  heap,        \* per trial field: the shared array behind qf_derivatives
  dtorPos,     \* number of callable members the destructor has destroyed
  lastAD,      \* per trial field: input of the most recent AD pass (history)
  lastCall,    \* the most recent facade call and what it did
  calc,        \* the most recent tensor-algebra evaluation (SpecTensor)
  manager,     \* the members of a BoundaryConditionManager
  view,        \* a FilterView and the iterator of the loop over it
  returned     \* the most recent answer of the manager's DOF queries

vars ==
  <<exec, dim, phase, ctorError, kernels, heap, dtorPos, lastAD, lastCall, calc,
    manager, view, returned>>

managerVars == <<manager, view, returned>>

integralVars == <<exec, dim, phase, ctorError, kernels, heap, dtorPos, lastAD, lastCall>>

-----------------------------------------------------------------------------
(* Bounds *)

NumTrials == 2     \* num_trial_spaces = sizeof...(trials)
NumElements == 1   \* num_elements
MaxVal == 1        \* amplitudes of input / direction vectors are 0..MaxVal
TestOrder == 1     \* test::order
Components == 1    \* components of a trial field value at a point
MaxScalar == 1     \* tensor-algebra entries range over -MaxScalar..MaxScalar
MaxConditions == 3 \* boundary conditions registered per kind
NumTags == 2       \* enumerators of the Tag enumeration
NumDofs == 2       \* true DOF indices an essential condition can hold

Trials == 0 .. (NumTrials - 1)

Elements == 1 .. NumElements

\* the element dimensions the constructor is instantiated with
Dimensions == {1, 2}

Amplitudes == 0 .. MaxVal

\* trials::order of trial space i
TrialOrder(i) == 1

ExecutionSpaces == {"CPU", "GPU"}

-----------------------------------------------------------------------------
(* Generic helpers *)

RECURSIVE SumOver(_, _)
SumOver(S, f) ==
  IF S = {} THEN 0
  ELSE LET x == CHOOSE y \in S : TRUE IN f[x] + SumOver(S \ {x}, f)

\* the sum of f[lo], ..., f[hi]
RECURSIVE SumRange(_, _, _)
SumRange(lo, hi, f) == IF hi < lo THEN 0 ELSE f[hi] + SumRange(lo, hi - 1, f)

RECURSIVE Pow(_, _)
Pow(b, e) == IF e = 0 THEN 1 ELSE b * Pow(b, e - 1)

MaxOf(S) == CHOOSE m \in S : \A x \in S : x <= m

-----------------------------------------------------------------------------
(* tensor.hpp: values *)

\* struct zero
Zero == [kind |-> "zero"]

\* a double
Dbl(v) == [kind |-> "double", v |-> v]

\* the multi-indices (0-based) of a tensor of the given shape
Idx(shape) ==
  IF Len(shape) = 1 THEN {<<i>> : i \in 0 .. (shape[1] - 1)}
  ELSE IF Len(shape) = 2 THEN {<<i, j>> : i \in 0 .. (shape[1] - 1), j \in 0 .. (shape[2] - 1)}
  ELSE IF Len(shape) = 3
    THEN {<<i, j, k>> : i \in 0 .. (shape[1] - 1), j \in 0 .. (shape[2] - 1),
                        k \in 0 .. (shape[3] - 1)}
  ELSE IF Len(shape) = 4
    THEN {<<i, j, k, l>> : i \in 0 .. (shape[1] - 1), j \in 0 .. (shape[2] - 1),
                           k \in 0 .. (shape[3] - 1), l \in 0 .. (shape[4] - 1)}
  ELSE {t \in [1 .. Len(shape) -> 0 .. (MaxOf({shape[k] : k \in 1 .. Len(shape)} \cup {1}) - 1)] :
          \A k \in 1 .. Len(shape) : t[k] < shape[k]}

\* struct tensor<T, n...>
Tensor(shape, data) == [kind |-> "tensor", shape |-> shape, data |-> data]

\* tensor<double, n...>{} : value-initialised, every entry 0.0
ZeroTensor(shape) == Tensor(shape, [i \in Idx(shape) |-> 0])

-----------------------------------------------------------------------------
(* tensor.hpp: elementwise operators on tensors of doubles *)

\* operator+(const tensor<S, m, n...>&, const tensor<T, m, n...>&)
TensorAdd(A, B) == Tensor(A.shape, [i \in Idx(A.shape) |-> A.data[i] + B.data[i]])

\* operator-(const tensor<T, m, n...>&) : unary negation
TensorNeg(A) == Tensor(A.shape, [i \in Idx(A.shape) |-> -A.data[i]])

\* operator*(S scale, const tensor<T, m, n...>&)
ScaleTensor(scale, A) == Tensor(A.shape, [i \in Idx(A.shape) |-> scale * A.data[i]])

\* dot(const tensor<S, m>&, const tensor<T, m>&) on doubles
DotVec(A, B) == SumOver(Idx(A.shape), [i \in Idx(A.shape) |-> A.data[i] * B.data[i]])

-----------------------------------------------------------------------------
(* dual numbers *)

\* dual<gradient_type>{value, gradient}
Dual(value, gradient) == [value |-> value, gradient |-> gradient]

\* operator+(dual, dual)
DualAdd(a, b) == Dual(a.value + b.value, TensorAdd(a.gradient, b.gradient))

\* operator+(dual, double)
DualAddDouble(a, b) == Dual(a.value + b, a.gradient)

\* operator*(dual, dual) : product rule
DualMul(a, b) ==
  Dual(a.value * b.value,
       TensorAdd(ScaleTensor(b.value, a.gradient), ScaleTensor(a.value, b.gradient)))

\* make_dual(const tensor<double, n...>&) with the value assignment left out
make_dual_NoValue(A) ==
  Tensor(A.shape,
         [i \in Idx(A.shape) |->
            Dual(0, Tensor(A.shape, [j \in Idx(A.shape) |-> IF j = i THEN 1 ELSE 0]))])

\* make_dual(const tensor<double, n...>&) that seeds every gradient at the first
\* position, A_dual(i...).gradient(0...) = 1.0
make_dual_SeedFirst(A) ==
  Tensor(A.shape,
         [i \in Idx(A.shape) |->
            Dual(A.data[i],
                 Tensor(A.shape,
                        [j \in Idx(A.shape) |-> IF \A k \in 1 .. Len(j) : j[k] = 0 THEN 1 ELSE 0]))])

\* make_dual(const tensor<double, n...>&)
make_dual(A) ==
  Tensor(A.shape,
         [i \in Idx(A.shape) |->
            Dual(A.data[i], Tensor(A.shape, [j \in Idx(A.shape) |-> IF j = i THEN 1 ELSE 0]))])

\* get_value(const tensor<dual<T>, n...>&)
get_value(arg) == Tensor(arg.shape, [i \in Idx(arg.shape) |-> arg.data[i].value])

\* dot(const tensor<S, m>&, const tensor<T, m>&) on duals: AB{} then
\* AB = AB + A[i] * B[i] for i = 0 .. m-1
RECURSIVE DotDualFrom(_, _, _)
DotDualFrom(A, B, i) ==
  IF i < 0 THEN Dual(0, ZeroTensor(A.data[<<0>>].gradient.shape))
  ELSE DualAdd(DotDualFrom(A, B, i - 1), DualMul(A.data[<<i>>], B.data[<<i>>]))

DotDual(A, B) == DotDualFrom(A, B, A.shape[1] - 1)

\* chain_rule(const tensor<double, n...>& df_dx, const tensor<double, n...>& dx)
chain_rule_full(df_dx, dx) ==
  SumOver(Idx(df_dx.shape), [i \in Idx(df_dx.shape) |-> df_dx.data[i] * dx.data[i]])

-----------------------------------------------------------------------------
(* boundary_integral.hpp: construction *)

\* constexpr auto Q = std::max({test::order, trials::order...}) + 1
Q == MaxOf({TestOrder} \cup {TrialOrder(i) : i \in Trials}) + 1

\* constexpr auto quadrature_points_per_element = (dim == 2) ? Q * Q : Q * Q * Q
quadrature_points_per_element(d) == IF d = 2 THEN Q * Q ELSE Q * Q * Q

\* the quadrature rule of the geometry: Q points per direction
NumQuadraturePoints(d) == Pow(Q, d)

QPoints(d) == 1 .. NumQuadraturePoints(d)

\* the shape of derivative_type: the gradient of the q-function output with
\* respect to one trial field value
DerivativeShape == <<Components>>

\* the callable members of the class
EvaluationSlot == <<"evaluation_", -1>>

ADSlot(i) == <<"evaluation_with_AD_", i>>

ActionSlot(i) == <<"action_of_gradient_", i>>

ElementSlot(i) == <<"element_gradient_", i>>

Slots ==
  {EvaluationSlot} \cup {ADSlot(i) : i \in Trials} \cup {ActionSlot(i) : i \in Trials}
    \cup {ElementSlot(i) : i \in Trials}

\* a default-constructed std::function
EmptyFunction == [state |-> "empty", ptr |-> FALSE, view |-> FALSE]

\* what the three closures of a trial field capture: ptr is the counted
\* handle (std::shared_ptr), view is the ArrayView qf_derivatives built from
\* ptr.get()
Captures(slot) ==
  IF slot[1] = "evaluation_" THEN [state |-> "set", ptr |-> FALSE, view |-> FALSE]
  ELSE IF slot[1] = "evaluation_with_AD_" THEN [state |-> "set", ptr |-> FALSE, view |-> TRUE]
  ELSE IF slot[1] = "action_of_gradient_" THEN [state |-> "set", ptr |-> TRUE, view |-> TRUE]
  ELSE [state |-> "set", ptr |-> FALSE, view |-> TRUE]

\* a constructor whose closures all capture the array of the first trial field
CapturedCache_First(slot) == 0

\* the array a closure's qf_derivatives views: iteration i of for_constexpr
\* allocates its own ptr and the closures assigned to index i capture its view
CapturedCache(slot) == slot[2]

\* accelerator::make_shared_array<exec, derivative_type>(n): n entries, each
\* value-initialised
make_shared_array(d) ==
  [c \in Elements \X (1 .. quadrature_points_per_element(d)) |-> ZeroTensor(DerivativeShape)]

\* a constructor that leaves the action-of-gradient kernel of the last trial field unset
ConstructedKernels_LastActionUnset(e) ==
  IF e = "CPU"
  THEN [s \in Slots |-> IF s = ActionSlot(NumTrials - 1) THEN EmptyFunction ELSE Captures(s)]
  ELSE [s \in Slots |-> EmptyFunction]

\* the constructor body: the members are assigned only under
\* if constexpr (exec == ExecutionSpace::CPU)
ConstructedKernels(e) ==
  IF e = "CPU" THEN [s \in Slots |-> Captures(s)] ELSE [s \in Slots |-> EmptyFunction]

\* the shared arrays after the constructor returned: the local ptr is gone,
\* the handles left are the ones the closures captured
ConstructedHeap(e, d) ==
  [i \in Trials |->
     IF e = "CPU"
     THEN [state |-> "live",
           refs  |-> Cardinality({s \in {ADSlot(i), ActionSlot(i), ElementSlot(i)} : Captures(s).ptr}),
           data  |-> make_shared_array(d)]
     ELSE [state |-> "none", refs |-> 0, data |-> <<>>]]

\* the active constructor body raises nothing: SLIC_ERROR_ROOT_IF is inside #if 0
ConstructorRaises(e) == FALSE

\* lastAD of a trial field no AD pass has run for; a pass with amplitude a leaves <<a>>
NoPass == <<>>

NoCall ==
  [op |-> "none", given |-> FALSE, which |-> -1, input |-> <<>>, invoked |-> {},
   outcome |-> "none", out |-> <<>>]

NoCalc == [op |-> "none"]

\* BoundaryConditionManager(mesh): the three vectors are empty and
\* all_dofs_valid_ has its default member initialiser, false
ConstructedManager ==
  [ess_bdr_ |-> <<>>, nat_bdr_ |-> <<>>, other_bdr_ |-> <<>>,
   all_true_dofs_ |-> <<>>, all_local_dofs_ |-> <<>>, all_dofs_valid_ |-> FALSE]

\* no FilterView has been built
NoView == [state |-> "none"]

\* no DOF query has been answered
NoAnswer == [op |-> "none"]

Init ==
  /\ exec \in ExecutionSpaces
  /\ dim \in Dimensions
  /\ phase = "configured"
  /\ ctorError = ConstructorRaises(exec)
  /\ kernels = ConstructedKernels(exec)
  /\ heap = ConstructedHeap(exec, dim)
  /\ dtorPos = 0
  /\ lastAD = [i \in Trials |-> NoPass]
  /\ lastCall = NoCall
  /\ calc = NoCalc
  /\ manager = ConstructedManager
  /\ view = NoView
  /\ returned = NoAnswer

-----------------------------------------------------------------------------
(* the kernels the closures wrap *)

\* input_E of one trial field, generated from an amplitude: the value of the
\* field at quadrature point q of element e
FieldAt(a, e, q) == Tensor(<<Components>>, [k \in Idx(<<Components>>) |-> a * q + e + k[1]])

\* the geometric factor (J, quadrature weight) at a point
Weight(e, q) == q

\* the q-function f(u) = sum over the trial fields of dot(u_j, u_j), on doubles
QFunction(u) == SumRange(0, NumTrials - 1, [j \in Trials |-> DotVec(u[j], u[j])])

\* the q-function with argument i a tensor of duals (the others are doubles)
QFunctionAD(u, i) ==
  DualAddDouble(DotDual(u[i], u[i]),
                SumOver(Trials \ {i}, [j \in Trials \ {i} |-> DotVec(u[j], u[j])]))

\* EvaluationKernel{eval_config, J, X, N, num_elements, qf}: the residual
EvaluationKernel(d, input) ==
  [e \in Elements |->
     SumRange(1, NumQuadraturePoints(d),
             [q \in QPoints(d) |->
                Weight(e, q) * QFunction([j \in Trials |-> FieldAt(input[j], e, q)])])]

\* the q-function output at a point with trial field i wrapped by make_dual
ADPoint(input, i, e, q) ==
  QFunctionAD([j \in Trials |->
                 IF j = i THEN make_dual(FieldAt(input[j], e, q)) ELSE FieldAt(input[j], e, q)], i)

\* EvaluationKernel{DerivativeWRT<i>{}, ...}: the residual, from the values
EvaluationKernelAD(d, input, i) ==
  [e \in Elements |->
     SumRange(1, NumQuadraturePoints(d),
              [q \in QPoints(d) |-> Weight(e, q) * ADPoint(input, i, e, q).value])]

\* EvaluationKernel{DerivativeWRT<i>{}, ...}: the writes to qf_derivatives
DerivativesWritten(d, input, i, old) ==
  [c \in DOMAIN old |->
     IF c[2] \in QPoints(d) THEN ADPoint(input, i, c[1], c[2]).gradient ELSE old[c]]

\* action_of_gradient_kernel(dU, dR, qf_derivatives, J, num_elements)
action_of_gradient_kernel(d, dU, qf_derivatives) ==
  [e \in Elements |->
     SumRange(1, NumQuadraturePoints(d),
             [q \in QPoints(d) |->
                Weight(e, q) * chain_rule_full(qf_derivatives[<<e, q>>], FieldAt(dU, e, q))])]

\* element_gradient_kernel(K_e, qf_derivatives, J, num_elements): the dense
\* block of element e, one row (test dof) by Components * points columns
element_gradient_kernel(d, qf_derivatives) ==
  [e \in Elements |->
     [col \in Idx(<<Components>>) \X QPoints(d) |->
        Weight(e, col[2]) * qf_derivatives[<<e, col[2]>>].data[col[1]]]]

-----------------------------------------------------------------------------
(* boundary_integral.hpp: the facade operations *)

\* the output vector as the caller passes it in
Unwritten == [e \in Elements |-> 0]

\* Mult(..., int which = 0): the default argument
DefaultWhich == 0

\* Mult that runs the AD kernel also for which == -1
MultKernels_AlwaysAD(which) == IF which = -1 THEN {ADSlot(0)} ELSE {ADSlot(which)}

\* Mult that runs the AD kernel of the next trial field
MultKernels_OffByOne(which) ==
  IF which = -1 THEN {EvaluationSlot} ELSE {ADSlot((which + 1) % NumTrials)}

\* Mult: if (which == -1) evaluation_(...) else evaluation_with_AD_[which](...)
MultKernels(which) == IF which = -1 THEN {EvaluationSlot} ELSE {ADSlot(which)}

\* GradientMult: action_of_gradient_[which](input_E, output_E)
GradientMultKernels(which) == {ActionSlot(which)}

\* ComputeElementGradients(K_b) { element_gradient_(K_b); } : the function has
\* no trial index and applies the call operator to the array
\* element_gradient_ itself, which selects no element of it
ComputeElementGradientsKernels(whichTrial) == {}

\* std::function::operator() throws std::bad_function_call on an empty target
Callable(invoked) == \A s \in invoked : kernels[s].state = "set"

Mult(input, given, w) ==
  LET which    == IF given THEN w ELSE DefaultWhich
      invoked  == MultKernels(which)
      ok       == Callable(invoked)
      adTrials == {i \in Trials : ADSlot(i) \in invoked}
  IN /\ phase = "configured"
     /\ heap' = IF ok
                THEN [c \in Trials |->
                        IF \E i \in adTrials : CapturedCache(ADSlot(i)) = c
                        THEN [heap[c] EXCEPT !.data =
                                DerivativesWritten(dim, input,
                                  CHOOSE i \in adTrials : CapturedCache(ADSlot(i)) = c,
                                  heap[c].data)]
                        ELSE heap[c]]
                ELSE heap
     /\ lastAD' = IF ok
                  THEN [i \in Trials |-> IF i \in adTrials THEN <<input[i]>> ELSE lastAD[i]]
                  ELSE lastAD
     /\ lastCall' = [op      |-> "Mult",
                     given   |-> given,
                     which   |-> which,
                     input   |-> input,
                     invoked |-> invoked,
                     outcome |-> IF ok THEN "returned" ELSE "bad_function_call",
                     out     |-> IF ~ok \/ invoked = {} THEN Unwritten
                                 ELSE IF adTrials # {}
                                      THEN EvaluationKernelAD(dim, input, CHOOSE i \in adTrials : TRUE)
                                      ELSE EvaluationKernel(dim, input)]
     /\ UNCHANGED <<exec, dim, phase, ctorError, kernels, dtorPos, calc, manager, view, returned>>

GradientMult(dU, which) ==
  LET invoked == GradientMultKernels(which)
      ok      == Callable(invoked)
  IN /\ phase = "configured"
     /\ lastCall' = [op      |-> "GradientMult",
                     given   |-> TRUE,
                     which   |-> which,
                     input   |-> dU,
                     invoked |-> invoked,
                     outcome |-> IF ok THEN "returned" ELSE "bad_function_call",
                     out     |-> IF ok
                                 THEN action_of_gradient_kernel(dim, dU,
                                        heap[CapturedCache(ActionSlot(which))].data)
                                 ELSE Unwritten]
     /\ UNCHANGED <<exec, dim, phase, ctorError, kernels, heap, dtorPos, lastAD, calc, manager, view, returned>>

\* the dense blocks as the caller passes them in
UnwrittenBlocks == [e \in Elements |-> [col \in Idx(<<Components>>) \X QPoints(dim) |-> 0]]

ComputeElementGradients(whichTrial) ==
  LET invoked == ComputeElementGradientsKernels(whichTrial)
  IN /\ phase = "configured"
     /\ lastCall' = [op      |-> "ComputeElementGradients",
                     given   |-> TRUE,
                     which   |-> whichTrial,
                     input   |-> <<>>,
                     invoked |-> invoked,
                     outcome |-> IF invoked = {} THEN "ill_formed"
                                 ELSE IF Callable(invoked) THEN "returned"
                                 ELSE "bad_function_call",
                     out     |-> IF invoked # {} /\ Callable(invoked)
                                 THEN element_gradient_kernel(dim,
                                        heap[(CHOOSE s \in invoked : TRUE)[2]].data)
                                 ELSE UnwrittenBlocks]
     /\ UNCHANGED <<exec, dim, phase, ctorError, kernels, heap, dtorPos, lastAD, calc, manager, view, returned>>

-----------------------------------------------------------------------------
(* boundary_integral.hpp: the implicit destructor *)

NumMembers == 3 * NumTrials + 1

\* a destructor that destroys action_of_gradient_ before element_gradient_
DtorSlot_ActionFirst(pos) ==
  IF pos <= NumTrials THEN ActionSlot(NumTrials - pos)
  ELSE IF pos <= 2 * NumTrials THEN ElementSlot(2 * NumTrials - pos)
  ELSE IF pos <= 3 * NumTrials THEN ADSlot(3 * NumTrials - pos)
  ELSE EvaluationSlot

\* members are destroyed in reverse order of declaration (evaluation_,
\* evaluation_with_AD_, action_of_gradient_, element_gradient_), array
\* elements from the last to the first
DtorSlot(pos) ==
  IF pos <= NumTrials THEN ElementSlot(NumTrials - pos)
  ELSE IF pos <= 2 * NumTrials THEN ActionSlot(2 * NumTrials - pos)
  ELSE IF pos <= 3 * NumTrials THEN ADSlot(3 * NumTrials - pos)
  ELSE EvaluationSlot

\* std::shared_ptr: dropping a handle frees the array with the last one
ReleaseHandle(h) ==
  IF h.refs = 1 THEN [state |-> "freed", refs |-> 0, data |-> <<>>]
  ELSE [h EXCEPT !.refs = h.refs - 1]

DestroyMember ==
  LET s == DtorSlot(dtorPos + 1)
  IN /\ phase \in {"configured", "destroying"}
     /\ dtorPos < NumMembers
     /\ kernels' = [kernels EXCEPT ![s] = [state |-> "destroyed", ptr |-> FALSE, view |-> FALSE]]
     /\ heap' = IF kernels[s].ptr THEN [heap EXCEPT ![s[2]] = ReleaseHandle(heap[s[2]])] ELSE heap
     /\ dtorPos' = dtorPos + 1
     /\ phase' = IF dtorPos + 1 = NumMembers THEN "destroyed" ELSE "destroying"
     /\ UNCHANGED <<exec, dim, ctorError, lastAD, lastCall, calc, manager, view, returned>>

\* the input_E arrays the calls are made with: trial field j has amplitude a + j
Inputs == {[j \in Trials |-> a + j] : a \in Amplitudes}

Next ==
  \/ \E input \in Inputs, w \in {-1} \cup Trials : Mult(input, TRUE, w)
  \/ \E input \in Inputs : Mult(input, FALSE, 0)
  \/ \E dU \in Amplitudes, which \in Trials : GradientMult(dU, which)
  \/ \E whichTrial \in Trials : ComputeElementGradients(whichTrial)
  \/ DestroyMember

Spec == Init /\ [][Next]_vars

-----------------------------------------------------------------------------
(* tensor.hpp: the zero sentinel; overload resolution is the case analysis *)

\* operator-(zero, T other) that forgets the negation
Sub_NoNegate(a, b) ==
  IF a.kind = "zero" /\ b.kind = "zero" THEN Zero
  ELSE IF a.kind = "zero" THEN b
  ELSE IF b.kind = "zero" THEN a
  ELSE IF a.kind = "double" THEN Dbl(a.v - b.v)
  ELSE Tensor(a.shape, [i \in Idx(a.shape) |-> a.data[i] - b.data[i]])

\* unary operator- : operator-(zero), the built-in one, operator-(const tensor&)
Negate(a) ==
  IF a.kind = "zero" THEN Zero
  ELSE IF a.kind = "double" THEN Dbl(-a.v)
  ELSE TensorNeg(a)

\* operator+(zero, zero), operator+(zero, T), operator+(T, zero), and the
\* sums of doubles and of tensors
Add(a, b) ==
  IF a.kind = "zero" /\ b.kind = "zero" THEN Zero
  ELSE IF a.kind = "zero" THEN b
  ELSE IF b.kind = "zero" THEN a
  ELSE IF a.kind = "double" THEN Dbl(a.v + b.v)
  ELSE TensorAdd(a, b)

\* operator-(zero, zero), operator-(zero, T), operator-(T, zero), and the
\* differences of doubles and of tensors
Sub(a, b) ==
  IF a.kind = "zero" /\ b.kind = "zero" THEN Zero
  ELSE IF a.kind = "zero" THEN Negate(b)
  ELSE IF b.kind = "zero" THEN a
  ELSE IF a.kind = "double" THEN Dbl(a.v - b.v)
  ELSE Tensor(a.shape, [i \in Idx(a.shape) |-> a.data[i] - b.data[i]])

\* operator+=(zero, zero), operator+=(tensor&, zero), operator+=(tensor&, const tensor&):
\* the left operand after the assignment
PlusAssign(A, b) ==
  IF A.kind = "zero" THEN Zero
  ELSE IF b.kind = "zero" THEN A
  ELSE Tensor(A.shape, [i \in Idx(A.shape) |-> A.data[i] + b.data[i]])

\* operator-=(zero, zero), operator-=(tensor&, zero), operator-=(tensor&, const tensor&)
MinusAssign(A, b) ==
  IF A.kind = "zero" THEN Zero
  ELSE IF b.kind = "zero" THEN A
  ELSE Tensor(A.shape, [i \in Idx(A.shape) |-> A.data[i] - b.data[i]])

-----------------------------------------------------------------------------
(* tensor.hpp: products; a call that no overload accepts, or whose body does
   not instantiate, is the value IllFormed *)

IllFormed == [kind |-> "ill_formed"]

Rank(A) == Len(A.shape)

\* the shape without its first extent
TailShape(shape) == SubSeq(shape, 2, Len(shape))

\* the shape without its last extent
FrontShape(shape) == SubSeq(shape, 1, Len(shape) - 1)

\* dot(const tensor<S, m, n>&, const tensor<T, n, p>&) with the accumulation
\* AB[i][j] = AB[i][j] + ... replaced by the plain assignment of the last term
dot_matrix_matrix_LastTerm(A, B) ==
  Tensor(<<A.shape[1], B.shape[2]>>,
         [t \in Idx(<<A.shape[1], B.shape[2]>>) |->
            A.data[<<t[1], A.shape[2] - 1>>] * B.data[<<A.shape[2] - 1, t[2]>>]])

\* dot(const tensor<S, m, n>&, const tensor<T, n, p>&):
\* AB[i][j] = AB[i][j] + A[i][k] * B[k][j] for k = 0 .. n-1
dot_matrix_matrix(A, B) ==
  Tensor(<<A.shape[1], B.shape[2]>>,
         [t \in Idx(<<A.shape[1], B.shape[2]>>) |->
            SumRange(0, A.shape[2] - 1,
                     [k \in 0 .. (A.shape[2] - 1) |->
                        A.data[<<t[1], k>>] * B.data[<<k, t[2]>>]])])

\* dot(const tensor<S, m>&, const tensor<T, m, n...>&) that pairs A[j] with the
\* last index of B instead of the first
dot_vector_tensor_LastIndex(A, B) ==
  Tensor(TailShape(B.shape),
         [t \in Idx(TailShape(B.shape)) |->
            SumRange(0, A.shape[1] - 1,
                     [j \in 0 .. (A.shape[1] - 1) |-> A.data[<<j>>] * B.data[t \o <<j>>]])])

\* dot(const tensor<S, m>&, const tensor<T, m, n>&): AB[i] = AB[i] + A[j] * B[j][i];
\* dot(const tensor<S, m>&, const tensor<T, m, n, p>&) and
\* dot(const tensor<S, m>&, const tensor<T, m, n, p, q>&): AB = AB + A[j] * B[j]
dot_vector_tensor(A, B) ==
  Tensor(TailShape(B.shape),
         [t \in Idx(TailShape(B.shape)) |->
            SumRange(0, A.shape[1] - 1,
                     [j \in 0 .. (A.shape[1] - 1) |-> A.data[<<j>>] * B.data[<<j>> \o t]])])

\* dot(const tensor<S, m, n>&, const tensor<T, n>&): AB[i] = AB[i] + A[i][j] * B[j];
\* dot(const tensor<S, m, n, p>&, const tensor<T, p>&):
\* AB[i][j] += A[i][j][k] * B[k]
dot_tensor_vector(A, B) ==
  Tensor(FrontShape(A.shape),
         [t \in Idx(FrontShape(A.shape)) |->
            SumRange(0, B.shape[1] - 1,
                     [k \in 0 .. (B.shape[1] - 1) |-> A.data[t \o <<k>>] * B.data[<<k>>]])])

\* dot(const tensor<S, m>& u, const tensor<T, m, n>& A, const tensor<U, n>& v):
\* uAv += u[i] * A[i][j] * v[j]
dot_uAv(u, A, v) ==
  Dbl(SumRange(0, u.shape[1] - 1,
        [i \in 0 .. (u.shape[1] - 1) |->
           SumRange(0, v.shape[1] - 1,
             [j \in 0 .. (v.shape[1] - 1) |-> u.data[<<i>>] * A.data[<<i, j>>] * v.data[<<j>>]])]))

\* the overload of dot that a call with two arguments selects
dot(a, b) ==
  IF a.kind = "zero" /\ b.kind = "zero" THEN IllFormed
  ELSE IF a.kind = "zero" \/ b.kind = "zero" THEN Zero
  ELSE IF a.kind # "tensor" \/ b.kind # "tensor" THEN IllFormed
  ELSE IF Rank(a) = 2 /\ Rank(b) = 2 /\ a.shape[2] = b.shape[1] THEN dot_matrix_matrix(a, b)
  ELSE IF Rank(a) = 1 /\ Rank(b) = 1 /\ a.shape = b.shape THEN Dbl(DotVec(a, b))
  ELSE IF Rank(a) = 1 /\ Rank(b) \in {2, 3, 4} /\ a.shape[1] = b.shape[1]
    THEN dot_vector_tensor(a, b)
  ELSE IF Rank(a) \in {2, 3} /\ Rank(b) = 1 /\ a.shape[Rank(a)] = b.shape[1]
    THEN dot_tensor_vector(a, b)
  ELSE IllFormed

\* operator*(T, zero) that returns the value-initialised T instead of zero{}
Mul_RightZeroKeepsShape(a, b) ==
  IF a.kind = "zero" THEN Zero
  ELSE IF b.kind = "zero" THEN (IF a.kind = "double" THEN Dbl(0) ELSE ZeroTensor(a.shape))
  ELSE IF a.kind = "double" /\ b.kind = "double" THEN Dbl(a.v * b.v)
  ELSE IF a.kind = "double" THEN ScaleTensor(a.v, b)
  ELSE IF b.kind = "double" THEN ScaleTensor(b.v, a)
  ELSE dot(a, b)

\* operator*(zero, zero), operator*(zero, T), operator*(T, zero), the product
\* of doubles, operator*(S scale, const tensor&), operator*(const tensor&, S scale)
\* and operator*(const tensor&, const tensor&), the shorthand for dot(A, B)
Mul(a, b) ==
  IF a.kind = "zero" \/ b.kind = "zero" THEN Zero
  ELSE IF a.kind = "double" /\ b.kind = "double" THEN Dbl(a.v * b.v)
  ELSE IF a.kind = "double" THEN ScaleTensor(a.v, b)
  ELSE IF b.kind = "double" THEN ScaleTensor(b.v, a)
  ELSE dot(a, b)

\* operator/(zero, T)
DivZeroBy(other) == Zero

\* outer(const tensor<S, m>&, const tensor<T, n>&): AB[i][j] = A[i] * B[j]
outer_vector_vector(A, B) ==
  Tensor(<<A.shape[1], B.shape[1]>>,
         [t \in Idx(<<A.shape[1], B.shape[1]>>) |-> A.data[<<t[1]>>] * B.data[<<t[2]>>]])

\* the overload of outer that a call selects: outer(double, tensor<T, n>),
\* outer(const tensor<T, m>&, double), outer(zero, const tensor<T, n>&),
\* outer(const tensor<T, n>&, zero), outer(const tensor<S, m>&, const tensor<T, n>&)
outer(a, b) ==
  IF a.kind = "double" /\ b.kind = "tensor" /\ Len(b.shape) = 1 THEN ScaleTensor(a.v, b)
  ELSE IF a.kind = "tensor" /\ Len(a.shape) = 1 /\ b.kind = "double" THEN ScaleTensor(b.v, a)
  ELSE IF a.kind = "zero" /\ b.kind = "tensor" /\ Len(b.shape) = 1 THEN Zero
  ELSE IF a.kind = "tensor" /\ Len(a.shape) = 1 /\ b.kind = "zero" THEN Zero
  ELSE IF a.kind = "tensor" /\ Len(a.shape) = 1 /\ b.kind = "tensor" /\ Len(b.shape) = 1
    THEN outer_vector_vector(a, b)
  ELSE IllFormed

\* A[i] for a tensor of rank two or more
SubTensor(A, i) ==
  Tensor(TailShape(A.shape), [t \in Idx(TailShape(A.shape)) |-> A.data[<<i>> \o t]])

\* chain_rule(const tensor<double, m, n...>& df_dx, const tensor<double, n...>& dx)
\* that contracts with the slice df_dx[0] in every entry
chain_rule_vector_valued_FirstSlice(df_dx, dx) ==
  Tensor(<<df_dx.shape[1]>>,
         [t \in Idx(<<df_dx.shape[1]>>) |-> chain_rule_full(SubTensor(df_dx, 0), dx)])

\* chain_rule(const tensor<double, m, n...>& df_dx, const tensor<double, n...>& dx):
\* total[i] = chain_rule(df_dx[i], dx)
chain_rule_vector_valued(df_dx, dx) ==
  Tensor(<<df_dx.shape[1]>>,
         [t \in Idx(<<df_dx.shape[1]>>) |-> chain_rule_full(SubTensor(df_dx, t[1]), dx)])

\* chain_rule(const tensor<double, m, n, p...>& df_dx, const tensor<double, p...>& dx):
\* total[i][j] = chain_rule(df_dx[i][j], dx)
chain_rule_matrix_valued(df_dx, dx) ==
  Tensor(<<df_dx.shape[1], df_dx.shape[2]>>,
         [t \in Idx(<<df_dx.shape[1], df_dx.shape[2]>>) |->
            chain_rule_full(SubTensor(SubTensor(df_dx, t[1]), t[2]), dx)])

\* the overload of chain_rule that a call selects
chain_rule(df_dx, dx) ==
  IF df_dx.kind = "zero" \/ dx.kind = "zero" THEN Zero
  ELSE IF df_dx.kind = "double" /\ dx.kind = "double" THEN Dbl(df_dx.v * dx.v)
  ELSE IF df_dx.kind = "tensor" /\ dx.kind = "double" THEN Mul(df_dx, dx)
  ELSE IF df_dx.kind # "tensor" \/ dx.kind # "tensor" THEN IllFormed
  ELSE IF df_dx.shape = dx.shape THEN Dbl(chain_rule_full(df_dx, dx))
  ELSE IF Rank(df_dx) >= 2 /\ TailShape(df_dx.shape) = dx.shape
    THEN chain_rule_vector_valued(df_dx, dx)
  ELSE IF Rank(df_dx) >= 3 /\ TailShape(TailShape(df_dx.shape)) = dx.shape
    THEN chain_rule_matrix_valued(df_dx, dx)
  ELSE IllFormed

-----------------------------------------------------------------------------
(* tensor.hpp: the members of struct zero *)

\* zero::operator double()
zero_to_double == Dbl(0)

\* zero::operator tensor<T, n...>() that fills the tensor with ones
zero_to_tensor_Ones(shape) == Tensor(shape, [i \in Idx(shape) |-> 1])

\* zero::operator tensor<T, n...>(): return tensor<T, n...>{}
zero_to_tensor(shape) == ZeroTensor(shape)

\* zero::operator()(T...)
zero_call(indices) == Zero

\* get<i>(zero&), get<i>(const zero&)
get_zero(i) == Zero

\* zero::operator=(T)
zero_assign(other) == Zero

-----------------------------------------------------------------------------
(* doubles that are not integers: the quotient n / d in lowest terms with d > 0;
   d = 0 stands for the IEEE results of a division by zero (n = 1: +inf,
   n = -1: -inf, n = 0: NaN) *)

Abs(x) == IF x < 0 THEN -x ELSE x

Sign(x) == IF x < 0 THEN -1 ELSE IF x = 0 THEN 0 ELSE 1

RECURSIVE GCD(_, _)
GCD(a, b) == IF b = 0 THEN a ELSE GCD(b, a % b)

Ratio(n, d) ==
  IF d = 0 THEN [n |-> Sign(n), d |-> 0]
  ELSE LET g == GCD(Abs(n), Abs(d))
       IN [n |-> Sign(n) * Sign(d) * (Abs(n) \div g), d |-> Abs(d) \div g]

FromInt(v) == [n |-> v, d |-> 1]

\* x * y
RatMul(x, y) == Ratio(x.n * y.n, x.d * y.d)

\* x / y
RatDiv(x, y) == Ratio(x.n * y.d, x.d * y.n)

\* -x
RatNeg(x) == [n |-> -x.n, d |-> x.d]

\* x + y
RatAdd(x, y) ==
  IF x.d = 0 /\ y.d = 0 THEN (IF x.n = y.n THEN x ELSE [n |-> 0, d |-> 0])
  ELSE Ratio(x.n * y.d + y.n * x.d, x.d * y.d)

\* x - y
RatSub(x, y) == RatAdd(x, RatNeg(y))

\* f[lo] + ... + f[hi], added in the order of the loop
RECURSIVE RatSumRange(_, _, _)
RatSumRange(lo, hi, f) ==
  IF hi < lo THEN FromInt(0) ELSE RatAdd(RatSumRange(lo, hi - 1, f), f[hi])

\* a tensor of doubles with the entries written as quotients
ToRational(A) == Tensor(A.shape, [i \in Idx(A.shape) |-> FromInt(A.data[i])])

\* dot(const tensor<S, m, n>&, const tensor<T, n, p>&) on such doubles
dot_matrix_matrix_rational(A, B) ==
  Tensor(<<A.shape[1], B.shape[2]>>,
         [t \in Idx(<<A.shape[1], B.shape[2]>>) |->
            RatSumRange(0, A.shape[2] - 1,
                        [k \in 0 .. (A.shape[2] - 1) |->
                           RatMul(A.data[<<t[1], k>>], B.data[<<k, t[2]>>])])])

\* operator/(S scale, const tensor<T, m, n...>& A): the result is declared as
\* tensor<decltype(S{} * T{}), n...> C{}, without the leading extent m, so for a
\* vector it is tensor<double>, which has no definition, and for any higher rank
\* C[i] = scale / A[i] comes down to the vector case: no call compiles
DivScalarByTensor(scale, A) == IllFormed

\* operator/(const tensor<T, m, n...>& A, S scale): C[i] = A[i] / scale
DivTensorByScalar(A, scale) ==
  Tensor(A.shape, [i \in Idx(A.shape) |-> Ratio(A.data[i], scale)])

-----------------------------------------------------------------------------
(* tensor.hpp: identity, determinant, inverse *)

\* DenseIdentity<dim>(): I[i][j] = (i == j)
DenseIdentity(n) ==
  Tensor(<<n, n>>, [t \in Idx(<<n, n>>) |-> IF t[1] = t[2] THEN 1 ELSE 0])

\* det(const tensor<T, 2, 2>&)
det_2x2(A) == A.data[<<0, 0>>] * A.data[<<1, 1>>] - A.data[<<0, 1>>] * A.data[<<1, 0>>]

\* det(const tensor<T, 3, 3>&)
det_3x3(A) ==
  A.data[<<0, 0>>] * A.data[<<1, 1>>] * A.data[<<2, 2>>]
  + A.data[<<0, 1>>] * A.data[<<1, 2>>] * A.data[<<2, 0>>]
  + A.data[<<0, 2>>] * A.data[<<1, 0>>] * A.data[<<2, 1>>]
  - A.data[<<0, 0>>] * A.data[<<1, 2>>] * A.data[<<2, 1>>]
  - A.data[<<0, 1>>] * A.data[<<1, 0>>] * A.data[<<2, 2>>]
  - A.data[<<0, 2>>] * A.data[<<1, 1>>] * A.data[<<2, 0>>]

\* the overload of det that a call selects
det(A) == IF A.shape = <<2, 2>> THEN det_2x2(A) ELSE det_3x3(A)

\* inv(const tensor<double, 2, 2>&): inv_detA = 1.0 / det(A), then the adjugate
\* entries times inv_detA
inv_2x2(A) ==
  LET inv_detA == RatDiv(FromInt(1), FromInt(det_2x2(A)))
      a(i, j) == A.data[<<i, j>>]
  IN Tensor(<<2, 2>>,
            (<<0, 0>> :> RatMul(FromInt(a(1, 1)), inv_detA)) @@
            (<<0, 1>> :> RatMul(FromInt(-a(0, 1)), inv_detA)) @@
            (<<1, 0>> :> RatMul(FromInt(-a(1, 0)), inv_detA)) @@
            (<<1, 1>> :> RatMul(FromInt(a(0, 0)), inv_detA)))

\* inv(const tensor<double, 3, 3>&)
inv_3x3(A) ==
  LET inv_detA == RatDiv(FromInt(1), FromInt(det_3x3(A)))
      a(i, j) == A.data[<<i, j>>]
      entry(v) == RatMul(FromInt(v), inv_detA)
  IN Tensor(<<3, 3>>,
            (<<0, 0>> :> entry(a(1, 1) * a(2, 2) - a(1, 2) * a(2, 1))) @@
            (<<0, 1>> :> entry(a(0, 2) * a(2, 1) - a(0, 1) * a(2, 2))) @@
            (<<0, 2>> :> entry(a(0, 1) * a(1, 2) - a(0, 2) * a(1, 1))) @@
            (<<1, 0>> :> entry(a(1, 2) * a(2, 0) - a(1, 0) * a(2, 2))) @@
            (<<1, 1>> :> entry(a(0, 0) * a(2, 2) - a(0, 2) * a(2, 0))) @@
            (<<1, 2>> :> entry(a(0, 2) * a(1, 0) - a(0, 0) * a(1, 2))) @@
            (<<2, 0>> :> entry(a(1, 0) * a(2, 1) - a(1, 1) * a(2, 0))) @@
            (<<2, 1>> :> entry(a(0, 1) * a(2, 0) - a(0, 0) * a(2, 1))) @@
            (<<2, 2>> :> entry(a(0, 0) * a(1, 1) - a(0, 1) * a(1, 0))))

\* inv(const tensor<T, n, n>& A), the Gauss elimination: the body swaps and
\* updates the rows of A, swap(A[max_row], A[i]), A[j] += c * A[i], A[j][i] = 0,
\* through the reference to const, so no instantiation of it compiles
inv_general(A) == IllFormed

\* the overload of inv that a call on a tensor of doubles selects
inv(A) ==
  IF A.shape = <<2, 2>> THEN inv_2x2(A)
  ELSE IF A.shape = <<3, 3>> THEN inv_3x3(A)
  ELSE inv_general(A)

\* double tolerance = 1.0e-8, as its reciprocal
ToleranceReciprocal == 100000000

\* is_symmetric(tensor<double, n, n> A, double tolerance = 1.0e-8):
\* false as soon as std::abs(A(i, j) - A(j, i)) > tolerance for some j > i
is_symmetric(A) ==
  \A i \in 0 .. (A.shape[1] - 1) : \A j \in (i + 1) .. (A.shape[1] - 1) :
    ~(Abs(A.data[<<i, j>>] - A.data[<<j, i>>]) * ToleranceReciprocal > 1)

\* make_tensor<2, 2>([A](int i, int j) { return A(i, j); })
LeadingSubtensor(A) == Tensor(<<2, 2>>, [t \in Idx(<<2, 2>>) |-> A.data[t]])

\* is_symmetric_and_positive_definite(tensor<double, 2, 2> A)
is_symmetric_and_positive_definite_2x2(A) ==
  IF ~is_symmetric(A) THEN FALSE
  ELSE IF A.data[<<0, 0>>] < 0 THEN FALSE
  ELSE IF det_2x2(A) < 0 THEN FALSE
  ELSE TRUE

\* is_symmetric_and_positive_definite(tensor<double, 3, 3> A)
is_symmetric_and_positive_definite_3x3(A) ==
  IF ~is_symmetric(A) THEN FALSE
  ELSE IF det_3x3(A) < 0 THEN FALSE
  ELSE IF ~is_symmetric_and_positive_definite_2x2(LeadingSubtensor(A)) THEN FALSE
  ELSE TRUE

\* the overload of is_symmetric_and_positive_definite that a call selects
is_symmetric_and_positive_definite(A) ==
  IF A.shape = <<2, 2>> THEN is_symmetric_and_positive_definite_2x2(A)
  ELSE is_symmetric_and_positive_definite_3x3(A)

-----------------------------------------------------------------------------
(* tensor.hpp: get_gradient *)

\* get_gradient(double)
get_gradient_double(arg) == Zero

\* get_gradient(const tensor<double, n...>&)
get_gradient_tensor(arg) == Zero

\* get_gradient(const tensor<dual<double>, n...>&) that returns the values
get_gradient_duals_Value(arg) ==
  Tensor(arg.shape, [i \in Idx(arg.shape) |-> arg.data[i].value])

\* get_gradient(const tensor<dual<double>, n...>&): g(i...) = arg(i...).gradient
get_gradient_duals(arg) ==
  Tensor(arg.shape, [i \in Idx(arg.shape) |-> arg.data[i].gradient])

\* the shape m... of the gradients of a tensor<dual<tensor<double, m...>>, n...>
GradientShape(arg) == arg.data[CHOOSE i \in Idx(arg.shape) : TRUE].gradient.shape

\* get_gradient(const tensor<dual<tensor<double, m...>>, n...>&): the
\* tensor<double, n..., m...> with g(i...) = arg(i...).gradient
get_gradient_dual_tensors(arg) ==
  Tensor(arg.shape \o GradientShape(arg),
         [t \in Idx(arg.shape \o GradientShape(arg)) |->
            arg.data[SubSeq(t, 1, Len(arg.shape))].gradient.data[
              SubSeq(t, Len(arg.shape) + 1, Len(t))]])

\* the tensor<dual<double>, n...> with the given values and gradients
DualsOf(values, gradients) ==
  Tensor(values.shape,
         [i \in Idx(values.shape) |-> Dual(values.data[i], gradients.data[i])])

\* the tensor<dual<tensor<double, m...>>, n> with the given values, whose
\* element i has the gradient gradients[i]
DualTensorsOf(values, gradients) ==
  Tensor(values.shape,
         [i \in Idx(values.shape) |-> Dual(values.data[i], SubTensor(gradients, i[1]))])

\* gradient{} followed by gradient -= f[lo], ..., gradient -= f[hi]
RECURSIVE RatSubtractRange(_, _, _)
RatSubtractRange(lo, hi, f) ==
  IF hi < lo THEN FromInt(0) ELSE RatSub(RatSubtractRange(lo, hi - 1, f), f[hi])

\* inv(tensor<dual<gradient_type>, n, n> A) for gradient_type = double:
\* invA = inv(get_value(A)), and entry (i, j) is the dual with the value invA[i][j]
\* and the gradient that starts at 0 and is decreased by
\* invA[i][k] * A[k][l].gradient * invA[l][j] for k, l = 0 .. n-1
inv_dual(A) ==
  LET n == A.shape[1]
      invA == inv(get_value(A))
      term(i, j, k, l) ==
        RatMul(RatMul(invA.data[<<i, k>>], FromInt(A.data[<<k, l>>].gradient)),
               invA.data[<<l, j>>])
  IN IF invA = IllFormed THEN IllFormed
     ELSE Tensor(<<n, n>>,
                 [t \in Idx(<<n, n>>) |->
                    Dual(invA.data[t],
                         RatSubtractRange(0, n * n - 1,
                           [q \in 0 .. (n * n - 1) |-> term(t[1], t[2], q \div n, q % n)]))])

-----------------------------------------------------------------------------
(* tensor.hpp: sym, antisym and transpose *)

\* operator+(const tensor<S, m, n...>&, const tensor<T, m, n...>&) on doubles
\* written as quotients
TensorAddRational(A, B) ==
  Tensor(A.shape, [i \in Idx(A.shape) |-> RatAdd(A.data[i], B.data[i])])

\* operator-(const tensor<T, m, n...>&) on doubles written as quotients
TensorNegRational(A) == Tensor(A.shape, [i \in Idx(A.shape) |-> RatNeg(A.data[i])])

\* a symmetric part without the factor 0.5
sym_NoHalf(A) ==
  Tensor(A.shape, [i \in Idx(A.shape) |-> FromInt(A.data[i] + A.data[<<i[2], i[1]>>])])

\* sym(const tensor<T, n, n>&): symA[i][j] = 0.5 * (A[i][j] + A[j][i])
sym(A) ==
  Tensor(A.shape,
         [i \in Idx(A.shape) |-> RatMul(Ratio(1, 2), FromInt(A.data[i] + A.data[<<i[2], i[1]>>]))])

\* antisym(const tensor<T, n, n>&): antisymA[i][j] = 0.5 * (A[i][j] - A[j][i])
antisym(A) ==
  Tensor(A.shape,
         [i \in Idx(A.shape) |-> RatMul(Ratio(1, 2), FromInt(A.data[i] - A.data[<<i[2], i[1]>>]))])

\* transpose(const tensor<T, m, n>&): AT is n x m and AT[i][j] = A[j][i]
transpose(A) ==
  Tensor(<<A.shape[2], A.shape[1]>>,
         [i \in Idx(<<A.shape[2], A.shape[1]>>) |-> A.data[<<i[2], i[1]>>]])

-----------------------------------------------------------------------------
(* tensor.hpp: inner and ddot *)

\* inner(const tensor<S, m, n>& A, const tensor<T, m, n>& B): sum += A[i][j] * B[i][j]
inner(A, B) ==
  IF A.kind = "tensor" /\ B.kind = "tensor" /\ Rank(A) = 2 /\ A.shape = B.shape
    THEN Dbl(DotVec(A, B))
  ELSE IllFormed

\* ddot(const tensor<S, m, n, p, q>&, const tensor<T, p, q>&) that contracts the
\* two middle indices of A: AB[i][j] += A[i][k][l][j] * B[k][l]
ddot_rank4_MiddleIndices(A, B) ==
  Tensor(<<A.shape[1], A.shape[2]>>,
         [t \in Idx(<<A.shape[1], A.shape[2]>>) |->
            SumOver(Idx(B.shape),
                    [kl \in Idx(B.shape) |->
                       A.data[<<t[1], kl[1], kl[2], t[2]>>] * B.data[kl]])])

\* ddot(const tensor<S, m, n, p, q>& A, const tensor<T, p, q>& B):
\* AB[i][j] += A[i][j][k][l] * B[k][l]
ddot_rank4(A, B) ==
  Tensor(<<A.shape[1], A.shape[2]>>,
         [t \in Idx(<<A.shape[1], A.shape[2]>>) |->
            SumOver(Idx(B.shape), [kl \in Idx(B.shape) |-> A.data[t \o kl] * B.data[kl]])])

\* ddot(const tensor<S, m, n, p>& A, const tensor<T, n, p>& B):
\* AB[i] += A[i][j][k] * B[j][k]
ddot_rank3(A, B) ==
  Tensor(<<A.shape[1]>>,
         [t \in Idx(<<A.shape[1]>>) |->
            SumOver(Idx(B.shape), [jk \in Idx(B.shape) |-> A.data[t \o jk] * B.data[jk]])])

\* ddot(const tensor<S, m, n>& A, const tensor<T, m, n>& B): AB += A[i][j] * B[i][j]
ddot_rank2(A, B) == Dbl(DotVec(A, B))

\* the overload of ddot that a call selects
ddot(A, B) ==
  IF A.kind # "tensor" \/ B.kind # "tensor" \/ Rank(B) # 2 THEN IllFormed
  ELSE IF Rank(A) = 4 /\ SubSeq(A.shape, 3, 4) = B.shape THEN ddot_rank4(A, B)
  ELSE IF Rank(A) = 3 /\ SubSeq(A.shape, 2, 3) = B.shape THEN ddot_rank3(A, B)
  ELSE IF Rank(A) = 2 /\ A.shape = B.shape THEN ddot_rank2(A, B)
  ELSE IllFormed

-----------------------------------------------------------------------------
(* the tensor operators applied to bounded inputs *)

Scalars == (-MaxScalar) .. MaxScalar

Doubles == {Dbl(v) : v \in Scalars}

TensorsOf(shape) == {Tensor(shape, d) : d \in [Idx(shape) -> Scalars]}

Vectors == TensorsOf(<<2>>)

Matrices == TensorsOf(<<2, 2>>)

Operands == {Zero} \cup Doubles \cup Vectors \cup Matrices

\* the non-negative scalars, for the operand lists of two and three tensors
SmallScalars == 0 .. MaxScalar

TensorsOver(shape, values) == {Tensor(shape, d) : d \in [Idx(shape) -> values]}

IsScalarOrTensor(x) == x.kind \in {"double", "tensor"}

IsVector(x) == x.kind = "tensor" /\ Len(x.shape) = 1

IsMatrix(x) == x.kind = "tensor" /\ Len(x.shape) = 2

\* the tensors with at most one entry that is not zero
UnitTensors(shape) ==
  {Tensor(shape, [i \in Idx(shape) |-> IF i = at THEN v ELSE 0]) :
     at \in Idx(shape), v \in Scalars}

\* A (1 x 2), B (2 x 2), C (2 x 1)
MatrixTriples ==
  {<<A, B, C>> : A \in TensorsOf(<<1, 2>>), B \in TensorsOver(<<2, 2>>, SmallScalars),
                 C \in TensorsOf(<<2, 1>>)}

SmallMatrices == TensorsOver(<<2, 2>>, SmallScalars)

VectorPairs == {<<v, w>> : v \in Vectors, w \in Vectors}

VectorMatrixPairs == {<<v, A>> : v \in Vectors, A \in SmallMatrices}

DoublePairs == {<<a, b>> : a \in Doubles, b \in Doubles}

TensorDoublePairs == {<<A, b>> : A \in Vectors \cup SmallMatrices, b \in Doubles}

SmallMatrixPairs == {<<A, B>> : A \in SmallMatrices, B \in SmallMatrices}

MatrixVectorPairs == {<<A, v>> : A \in SmallMatrices, v \in Vectors}

\* a tensor of rank 3 with a vector or a matrix
Rank3Pairs ==
  {<<A, v>> : A \in UnitTensors(<<2, 2, 2>>), v \in Vectors \cup SmallMatrices}

\* a vector with a tensor of rank 3 or 4
VectorTensorPairs ==
  {<<v, B>> : v \in Vectors, B \in UnitTensors(<<2, 2, 2>>) \cup UnitTensors(<<2, 2, 2, 2>>)}

\* u, A, v
VectorMatrixVectorTriples ==
  {<<u, A, v>> : u \in Vectors, A \in SmallMatrices, v \in Vectors}

\* a tensor of rank 3 or 4 with a matrix
DdotPairs ==
  {<<A, B>> : A \in TensorsOver(<<1, 2, 2>>, SmallScalars) \cup UnitTensors(<<2, 2, 2, 2>>),
              B \in SmallMatrices}

\* matrices that are not square: 1 x 2 and 2 x 3
RectangularMatrices == TensorsOf(<<1, 2>>) \cup TensorsOver(<<2, 3>>, SmallScalars)

\* a calculation that has its argument list and has not been carried out
Input(t) == [op |-> "input", args |-> t]

\* the argument lists the operators are applied to
IsInputTuple(c) ==
  \/ \E x \in Operands : c = Input(<<x>>)
  \/ \E t \in MatrixTriples : c = Input(t)
  \/ \E t \in VectorPairs : c = Input(t)
  \/ \E t \in VectorMatrixPairs : c = Input(t)
  \/ \E t \in DoublePairs : c = Input(t)
  \/ \E t \in TensorDoublePairs : c = Input(t)
  \/ \E t \in SmallMatrixPairs : c = Input(t)
  \/ \E t \in MatrixVectorPairs : c = Input(t)
  \/ \E t \in Rank3Pairs : c = Input(t)
  \/ \E t \in VectorTensorPairs : c = Input(t)
  \/ \E t \in VectorMatrixVectorTriples : c = Input(t)
  \/ \E t \in DdotPairs : c = Input(t)
  \/ \E B \in RectangularMatrices : c = Input(<<B>>)

InitTensor ==
  /\ exec = "CPU"
  /\ dim = 2
  /\ phase = "configured"
  /\ ctorError = ConstructorRaises(exec)
  /\ kernels = ConstructedKernels(exec)
  /\ heap = ConstructedHeap(exec, dim)
  /\ dtorPos = 0
  /\ lastAD = [i \in Trials |-> NoPass]
  /\ lastCall = NoCall
  /\ IsInputTuple(calc)
  /\ manager = ConstructedManager
  /\ view = NoView
  /\ returned = NoAnswer

\* the result of applying an operator to the drawn arguments
Apply(name, out) ==
  /\ calc.op = "input"
  /\ calc' = [op |-> name, args |-> calc.args, out |-> out]
  /\ UNCHANGED <<integralVars, managerVars>>

\* zero{} + x
ZeroPlus == Len(calc.args) = 1 /\ Apply("zero+x", Add(Zero, calc.args[1]))

\* x + zero{}
PlusZero == Len(calc.args) = 1 /\ Apply("x+zero", Add(calc.args[1], Zero))

\* zero{} - x
ZeroMinus == Len(calc.args) = 1 /\ Apply("zero-x", Sub(Zero, calc.args[1]))

\* x - zero{}
MinusZero == Len(calc.args) = 1 /\ Apply("x-zero", Sub(calc.args[1], Zero))

\* x += zero{} for a tensor (or zero) x
PlusAssignZero ==
  /\ Len(calc.args) = 1
  /\ calc.args[1].kind # "double"
  /\ Apply("x+=zero", PlusAssign(calc.args[1], Zero))

\* x -= zero{} for a tensor (or zero) x
MinusAssignZero ==
  /\ Len(calc.args) = 1
  /\ calc.args[1].kind # "double"
  /\ Apply("x-=zero", MinusAssign(calc.args[1], Zero))

\* zero{} * x
ZeroTimes == Len(calc.args) = 1 /\ Apply("zero*x", Mul(Zero, calc.args[1]))

\* x * zero{}
TimesZero == Len(calc.args) = 1 /\ Apply("x*zero", Mul(calc.args[1], Zero))

\* zero{} / x
ZeroDividedBy == Len(calc.args) = 1 /\ Apply("zero/x", DivZeroBy(calc.args[1]))

\* dot(x, zero{})
DotWithZero == Len(calc.args) = 1 /\ Apply("dot(x,zero)", dot(calc.args[1], Zero))

\* dot(zero{}, x)
ZeroDot == Len(calc.args) = 1 /\ Apply("dot(zero,x)", dot(Zero, calc.args[1]))

\* outer(zero{}, x)
ZeroOuter == Len(calc.args) = 1 /\ Apply("outer(zero,x)", outer(Zero, calc.args[1]))

\* outer(x, zero{})
OuterWithZero == Len(calc.args) = 1 /\ Apply("outer(x,zero)", outer(calc.args[1], Zero))

\* chain_rule(zero{}, x)
ZeroChainRule == Len(calc.args) = 1 /\ Apply("chain_rule(zero,x)", chain_rule(Zero, calc.args[1]))

\* chain_rule(x, zero{})
ChainRuleWithZero ==
  Len(calc.args) = 1 /\ Apply("chain_rule(x,zero)", chain_rule(calc.args[1], Zero))

\* double d = zero{}
ZeroToDouble ==
  /\ Len(calc.args) = 1
  /\ calc.args[1].kind = "double"
  /\ Apply("double(zero)", zero_to_double)

\* tensor<double, n...> T = zero{}, for the shape n... of the drawn tensor
ZeroToTensor ==
  /\ Len(calc.args) = 1
  /\ calc.args[1].kind = "tensor"
  /\ Apply("tensor(zero)", zero_to_tensor(calc.args[1].shape))

\* zero{}(i...), for the multi-indices i... of the drawn tensor
ZeroCall ==
  /\ Len(calc.args) = 1
  /\ calc.args[1].kind = "tensor"
  /\ \E i \in Idx(calc.args[1].shape) :
       /\ calc.op = "input"
       /\ calc' = [op |-> "zero(i...)", args |-> calc.args, at |-> i, out |-> zero_call(i)]
       /\ UNCHANGED <<integralVars, managerVars>>

\* get<i>(zero{})
GetZero ==
  /\ Len(calc.args) = 1
  /\ calc.args[1].kind = "zero"
  /\ \E i \in 0 .. MaxScalar :
       /\ calc.op = "input"
       /\ calc' = [op |-> "get<i>(zero)", args |-> calc.args, at |-> i, out |-> get_zero(i)]
       /\ UNCHANGED <<integralVars, managerVars>>

\* zero{} = x
ZeroAssign == Len(calc.args) = 1 /\ Apply("zero=x", zero_assign(calc.args[1]))

\* dot(dot(A, B), C) and dot(A, dot(B, C)) for conforming matrices
DotAssociate ==
  /\ Len(calc.args) = 3
  /\ \A k \in 1 .. 3 : IsMatrix(calc.args[k])
  /\ Apply("dot(dot(A,B),C)",
           [ab |-> dot(calc.args[1], calc.args[2]),
            bc |-> dot(calc.args[2], calc.args[3]),
            left |-> dot(dot(calc.args[1], calc.args[2]), calc.args[3]),
            right |-> dot(calc.args[1], dot(calc.args[2], calc.args[3]))])

\* make_dual(A), get_value(make_dual(A)) and get_gradient(make_dual(A))
MakeDual ==
  /\ Len(calc.args) = 1
  /\ calc.args[1].kind = "tensor"
  /\ Apply("make_dual(A)",
           [dual |-> make_dual(calc.args[1]),
            value |-> get_value(make_dual(calc.args[1])),
            gradient |-> get_gradient_dual_tensors(make_dual(calc.args[1]))])

\* get_gradient(x) for a double x
GetGradientOfDouble ==
  /\ Len(calc.args) = 1
  /\ calc.args[1].kind = "double"
  /\ Apply("get_gradient(double)", get_gradient_double(calc.args[1]))

\* get_gradient(x) for a tensor of doubles x
GetGradientOfTensor ==
  /\ Len(calc.args) = 1
  /\ calc.args[1].kind = "tensor"
  /\ Apply("get_gradient(tensor)", get_gradient_tensor(calc.args[1]))

\* get_gradient(x) for a tensor<dual<double>, n> x
GetGradientOfDuals ==
  /\ Len(calc.args) = 2
  /\ IsVector(calc.args[1])
  /\ IsVector(calc.args[2])
  /\ Apply("get_gradient(duals)",
           [arg |-> DualsOf(calc.args[1], calc.args[2]),
            g |-> get_gradient_duals(DualsOf(calc.args[1], calc.args[2]))])

\* get_gradient(x) for a tensor<dual<tensor<double, m>>, n> x
GetGradientOfDualTensors ==
  /\ Len(calc.args) = 2
  /\ IsVector(calc.args[1])
  /\ IsMatrix(calc.args[2])
  /\ Apply("get_gradient(dual tensors)",
           [arg |-> DualTensorsOf(calc.args[1], calc.args[2]),
            g |-> get_gradient_dual_tensors(DualTensorsOf(calc.args[1], calc.args[2]))])

\* chain_rule(df_dx, dx)
ChainRule ==
  /\ Len(calc.args) = 2
  /\ Apply("chain_rule(df_dx,dx)", chain_rule(calc.args[1], calc.args[2]))

\* dot(A, B)
Dot ==
  /\ Len(calc.args) = 2
  /\ Apply("dot(A,B)", dot(calc.args[1], calc.args[2]))

\* dot(u, A, v) and dot(u, dot(A, v))
DotThree ==
  /\ Len(calc.args) = 3
  /\ IsVector(calc.args[1])
  /\ IsMatrix(calc.args[2])
  /\ IsVector(calc.args[3])
  /\ Apply("dot(u,A,v)",
           [uAv |-> dot_uAv(calc.args[1], calc.args[2], calc.args[3]),
            nested |-> dot(calc.args[1], dot(calc.args[2], calc.args[3]))])

\* ddot(A, B)
Ddot ==
  /\ Len(calc.args) = 2
  /\ Apply("ddot(A,B)", ddot(calc.args[1], calc.args[2]))

\* inner(A, B)
Inner ==
  /\ Len(calc.args) = 2
  /\ Apply("inner(A,B)", inner(calc.args[1], calc.args[2]))

\* scale / A
ScalarDividedByTensor ==
  /\ Len(calc.args) = 2
  /\ calc.args[1].kind = "tensor"
  /\ calc.args[2].kind = "double"
  /\ Apply("scale/A", DivScalarByTensor(calc.args[2].v, calc.args[1]))

\* A / scale
TensorDividedByScalar ==
  /\ Len(calc.args) = 2
  /\ calc.args[1].kind = "tensor"
  /\ calc.args[2].kind = "double"
  /\ Apply("A/scale", DivTensorByScalar(calc.args[1], calc.args[2].v))

\* sym(A) + antisym(A) for a square matrix A
SymPlusAntisym ==
  /\ Len(calc.args) = 1
  /\ calc.args[1].kind = "tensor"
  /\ Len(calc.args[1].shape) = 2
  /\ calc.args[1].shape[1] = calc.args[1].shape[2]
  /\ Apply("sym+antisym",
           [sym     |-> sym(calc.args[1]),
            antisym |-> antisym(calc.args[1]),
            sum     |-> TensorAddRational(sym(calc.args[1]), antisym(calc.args[1]))])

\* transpose(transpose(B)) for a matrix B
TransposeTwice ==
  /\ Len(calc.args) = 1
  /\ calc.args[1].kind = "tensor"
  /\ Len(calc.args[1].shape) = 2
  /\ Apply("transpose(transpose(B))",
           [once  |-> transpose(calc.args[1]),
            twice |-> transpose(transpose(calc.args[1]))])

NextTensor ==
  \/ Dot
  \/ SymPlusAntisym
  \/ TransposeTwice
  \/ ScalarDividedByTensor
  \/ TensorDividedByScalar
  \/ Ddot
  \/ Inner
  \/ DotThree
  \/ ChainRule
  \/ GetGradientOfDouble
  \/ GetGradientOfTensor
  \/ GetGradientOfDuals
  \/ GetGradientOfDualTensors
  \/ MakeDual
  \/ DotAssociate
  \/ ZeroToDouble
  \/ ZeroToTensor
  \/ ZeroCall
  \/ GetZero
  \/ ZeroAssign
  \/ ZeroPlus
  \/ PlusZero
  \/ ZeroMinus
  \/ MinusZero
  \/ PlusAssignZero
  \/ MinusAssignZero
  \/ ZeroTimes
  \/ TimesZero
  \/ ZeroDividedBy
  \/ DotWithZero
  \/ ZeroDot
  \/ ZeroOuter
  \/ OuterWithZero
  \/ ZeroChainRule
  \/ ChainRuleWithZero

SpecTensor == InitTensor /\ [][NextTensor]_vars

-----------------------------------------------------------------------------
(* the square-matrix functions applied to bounded inputs *)

Matrices3 == TensorsOver(<<3, 3>>, SmallScalars)

\* the square matrices of the other sizes: 1 x 1, and the multiples of the
\* 4 x 4 identity
GeneralMatrices ==
  TensorsOf(<<1, 1>>) \cup {ScaleTensor(v, DenseIdentity(4)) : v \in Scalars}

SquareMatrices == Matrices \cup Matrices3 \cup GeneralMatrices

\* the values and the gradients of a square tensor of dual<double>
DualMatrixPairs ==
  {<<V, G>> : V \in Matrices, G \in SmallMatrices}
    \cup {<<V, G>> : V \in TensorsOf(<<1, 1>>), G \in TensorsOf(<<1, 1>>)}

\* the argument lists the square-matrix functions are applied to
IsMatrixInputTuple(c) ==
  \/ \E A \in SquareMatrices : c = Input(<<A>>)
  \/ \E t \in DualMatrixPairs : c = Input(t)

InitMatrix ==
  /\ exec = "CPU"
  /\ dim = 2
  /\ phase = "configured"
  /\ ctorError = ConstructorRaises(exec)
  /\ kernels = ConstructedKernels(exec)
  /\ heap = ConstructedHeap(exec, dim)
  /\ dtorPos = 0
  /\ lastAD = [i \in Trials |-> NoPass]
  /\ lastCall = NoCall
  /\ IsMatrixInputTuple(calc)
  /\ manager = ConstructedManager
  /\ view = NoView
  /\ returned = NoAnswer

\* inv(A), dot(A, inv(A)) and dot(inv(A), A)
Invert ==
  LET A == calc.args[1]
      invA == inv(A)
  IN /\ Len(calc.args) = 1
     /\ Apply("inv(A)",
              IF invA = IllFormed
                THEN [inv |-> IllFormed, left |-> IllFormed, right |-> IllFormed]
                ELSE [inv |-> invA,
                      left |-> dot_matrix_matrix_rational(ToRational(A), invA),
                      right |-> dot_matrix_matrix_rational(invA, ToRational(A))])

\* is_symmetric_and_positive_definite(A), which is declared for tensor<double, 2, 2>
\* and tensor<double, 3, 3>
CheckPositiveDefinite ==
  /\ Len(calc.args) = 1
  /\ calc.args[1].shape \in {<<2, 2>>, <<3, 3>>}
  /\ Apply("is_symmetric_and_positive_definite(A)",
           is_symmetric_and_positive_definite(calc.args[1]))

\* inv(A) for the tensor of duals A with the drawn values and gradients
InvertDual ==
  /\ Len(calc.args) = 2
  /\ Apply("inv(dual A)", inv_dual(DualsOf(calc.args[1], calc.args[2])))

NextMatrix ==
  \/ Invert
  \/ CheckPositiveDefinite
  \/ InvertDual

SpecMatrix == InitMatrix /\ [][NextMatrix]_vars

-----------------------------------------------------------------------------
(* boundary_condition_manager.hpp: FilterView over the generic conditions.
   Iterators into other_bdr_ are positions 1 .. Len(other_bdr_); the end
   iterator is the position Len(other_bdr_) + 1 *)

Tags == 0 .. (NumTags - 1)

\* BoundaryCondition::tagEquals(tag) on a condition that setTag(tag) was called on
tagEquals(bc, tag) == bc.tag = tag

\* the loop of the constructor and of operator++ with the two tests exchanged,
\* while ((!pred(*curr)) && (curr != end)): it applies the predicate at end
RECURSIVE SkipToMatch_PredicateFirst(_, _, _, _)
SkipToMatch_PredicateFirst(container, tag, curr, derefs) ==
  IF curr = Len(container) + 1 THEN [curr |-> curr, derefs |-> derefs \cup {curr}]
  ELSE IF ~tagEquals(container[curr], tag)
    THEN SkipToMatch_PredicateFirst(container, tag, curr + 1, derefs \cup {curr})
  ELSE [curr |-> curr, derefs |-> derefs \cup {curr}]

\* while ((curr != end) && (!pred(*curr))) { ++curr; } : where the loop stops,
\* and the positions it has dereferenced on top of derefs
RECURSIVE SkipToMatch(_, _, _, _)
SkipToMatch(container, tag, curr, derefs) ==
  IF curr # Len(container) + 1
    THEN IF ~tagEquals(container[curr], tag)
           THEN SkipToMatch(container, tag, curr + 1, derefs \cup {curr})
           ELSE [curr |-> curr, derefs |-> derefs \cup {curr}]
    ELSE [curr |-> curr, derefs |-> derefs]

\* addGeneric(bdr_attr, bdr_coef, tag, space, component)
AddGeneric(tag) ==
  /\ view.state = "none"
  /\ Len(manager.other_bdr_) < MaxConditions
  /\ manager' = [manager EXCEPT !.other_bdr_ = Append(@, [tag |-> tag]),
                                 !.all_dofs_valid_ = FALSE]
  /\ UNCHANGED <<integralVars, calc, view, returned>>

\* genericsWithTag(tag): FilterView(other_bdr_.begin(), other_bdr_.end(), pred),
\* whose constructor skips to the first element that meets the predicate
GenericsWithTag(tag) ==
  LET first == SkipToMatch(manager.other_bdr_, tag, 1, {})
  IN /\ view.state = "none"
     /\ view' = [state |-> "view", tag |-> tag, begin_ |-> first.curr,
                  end_ |-> Len(manager.other_bdr_) + 1, curr_ |-> first.curr,
                  derefs |-> first.derefs, visited |-> <<>>, increments |-> 0]
     /\ UNCHANGED <<integralVars, calc, manager, returned>>

\* for (auto& bc : view): the iterator begin() and the test begin() != end()
Begin ==
  /\ view.state = "view"
  /\ view' = [view EXCEPT !.state = "test", !.curr_ = view.begin_]
  /\ UNCHANGED <<integralVars, calc, manager, returned>>

\* the loop test it != end() holds and the body takes *it
Dereference ==
  /\ view.state = "test"
  /\ view.curr_ # view.end_
  /\ view' = [view EXCEPT !.state = "body",
                           !.visited = Append(@, view.curr_),
                           !.derefs = @ \cup {view.curr_}]
  /\ UNCHANGED <<integralVars, calc, manager, returned>>

\* FilterViewIterator::operator++: ++curr_, then the skipping loop
Increment ==
  LET next == SkipToMatch(manager.other_bdr_, view.tag, view.curr_ + 1, view.derefs)
  IN /\ view.state = "body"
     /\ view' = [view EXCEPT !.state = "test", !.curr_ = next.curr,
                              !.derefs = next.derefs, !.increments = @ + 1]
     /\ UNCHANGED <<integralVars, calc, manager, returned>>

\* the loop test it != end() fails: operator!= compares curr_ with end_
LoopExit ==
  /\ view.state = "test"
  /\ ~(view.curr_ # view.end_)
  /\ view' = [view EXCEPT !.state = "done"]
  /\ UNCHANGED <<integralVars, calc, manager, returned>>

InitManager ==
  /\ exec = "CPU"
  /\ dim = 2
  /\ phase = "configured"
  /\ ctorError = ConstructorRaises(exec)
  /\ kernels = ConstructedKernels(exec)
  /\ heap = ConstructedHeap(exec, dim)
  /\ dtorPos = 0
  /\ lastAD = [i \in Trials |-> NoPass]
  /\ lastCall = NoCall
  /\ calc = NoCalc
  /\ manager = ConstructedManager
  /\ view = NoView
  /\ returned = NoAnswer

NextFilter ==
  \/ \E tag \in Tags : AddGeneric(tag)
  \/ \E tag \in Tags : GenericsWithTag(tag)
  \/ Begin
  \/ Dereference
  \/ Increment
  \/ LoopExit

SpecFilter == InitManager /\ [][NextFilter]_vars

-----------------------------------------------------------------------------
(* boundary_condition_manager.hpp: the essential DOF lists and their cache.
   An mfem::Array<int> is a sequence of integers *)

Dofs == 0 .. (NumDofs - 1)

\* the essential conditions a caller registers: the true DOFs and the local
\* DOFs the condition holds, in the order it lists them
EssentialConditions ==
  {[true_dofs |-> <<d>>, local_dofs |-> <<d + 1, d>>] : d \in Dofs}

\* Array::Append of the list of every condition, in the order of ess_bdr_
RECURSIVE AppendAll(_, _)
AppendAll(conditions, field) ==
  IF conditions = <<>> THEN <<>>
  ELSE AppendAll(SubSeq(conditions, 1, Len(conditions) - 1), field)
         \o conditions[Len(conditions)][field]

\* Array::Sort followed by Array::Unique
RECURSIVE Ascending(_)
Ascending(S) ==
  IF S = {} THEN <<>>
  ELSE LET least == CHOOSE x \in S : \A y \in S : x <= y
       IN <<least>> \o Ascending(S \ {least})

SortUnique(list) == Ascending({list[k] : k \in 1 .. Len(list)})

\* updateAllDofs(): the two lists are rebuilt from ess_bdr_ and marked valid
updateAllDofs(m) ==
  [m EXCEPT !.all_true_dofs_ = SortUnique(AppendAll(m.ess_bdr_, "true_dofs")),
            !.all_local_dofs_ = SortUnique(AppendAll(m.ess_bdr_, "local_dofs")),
            !.all_dofs_valid_ = TRUE]

\* addEssential(ess_bdr, ess_bdr_coef, space, component)
AddEssential(bc) ==
  /\ Len(manager.ess_bdr_) < MaxConditions
  /\ manager' = [manager EXCEPT !.ess_bdr_ = Append(@, bc), !.all_dofs_valid_ = FALSE]
  /\ UNCHANGED <<integralVars, calc, view, returned>>

\* addNatural(nat_bdr, nat_bdr_coef, space, component)
AddNatural ==
  /\ Len(manager.nat_bdr_) < MaxConditions
  /\ manager' = [manager EXCEPT !.nat_bdr_ = Append(@, [kind |-> "natural"]),
                                 !.all_dofs_valid_ = FALSE]
  /\ UNCHANGED <<integralVars, calc, view, returned>>

\* essentials().push_back(bc): std::vector<BoundaryCondition>& essentials()
\* hands out ess_bdr_ itself and touches no other member
EssentialsPushBack(bc) ==
  /\ Len(manager.ess_bdr_) < MaxConditions
  /\ manager' = [manager EXCEPT !.ess_bdr_ = Append(@, bc)]
  /\ UNCHANGED <<integralVars, calc, view, returned>>

\* essentials().pop_back()
EssentialsPopBack ==
  /\ Len(manager.ess_bdr_) > 0
  /\ manager' = [manager EXCEPT !.ess_bdr_ = SubSeq(@, 1, Len(@) - 1)]
  /\ UNCHANGED <<integralVars, calc, view, returned>>

\* allEssentialTrueDofs(): if (!all_dofs_valid_) updateAllDofs(); return all_true_dofs_
AllEssentialTrueDofs ==
  LET m == IF ~manager.all_dofs_valid_ THEN updateAllDofs(manager) ELSE manager
  IN /\ manager' = m
     /\ returned' = [op |-> "allEssentialTrueDofs", dofs |-> m.all_true_dofs_,
                      registered |-> manager.ess_bdr_]
     /\ UNCHANGED <<integralVars, calc, view>>

\* allEssentialLocalDofs(): if (!all_dofs_valid_) updateAllDofs(); return all_local_dofs_
AllEssentialLocalDofs ==
  LET m == IF ~manager.all_dofs_valid_ THEN updateAllDofs(manager) ELSE manager
  IN /\ manager' = m
     /\ returned' = [op |-> "allEssentialLocalDofs", dofs |-> m.all_local_dofs_,
                      registered |-> manager.ess_bdr_]
     /\ UNCHANGED <<integralVars, calc, view>>

NextManager ==
  \/ \E bc \in EssentialConditions : AddEssential(bc)
  \/ AddNatural
  \/ \E tag \in Tags : AddGeneric(tag)
  \/ \E bc \in EssentialConditions : EssentialsPushBack(bc)
  \/ EssentialsPopBack
  \/ AllEssentialTrueDofs
  \/ AllEssentialLocalDofs

SpecManager == InitManager /\ [][NextManager]_vars

-----------------------------------------------------------------------------
(* Properties of the Integral facade (Spec) *)

\* the cache contents an AD pass for trial field i writes when the amplitude
\* of trial field i is a (the gradient with respect to trial field i of the
\* q-function depends on no other field)
DerivativesOfPass(i, a) ==
  DerivativesWritten(dim, [j \in Trials |-> a], i, make_shared_array(dim))

\* the product of the dense block of element e with the direction dU
BlockTimesDirection(K_e, dU, e) ==
  SumOver(DOMAIN K_e[e],
          [col \in DOMAIN K_e[e] |-> K_e[e][col] * FieldAt(dU, e, col[2]).data[col[1]]])

\* C1: Mult invokes exactly one kernel: evaluation_ when which == -1, the AD
\* kernel evaluation_with_AD_[which] when 0 <= which < num_trial_spaces, and
\* the AD kernel of trial field 0 when which is omitted; on a CPU Integral
\* the kernel runs (the AD kernel records its pass for that trial field).
C1_MultSelectsOneKernel ==
  lastCall.op = "Mult" =>
    /\ Cardinality(lastCall.invoked) = 1
    /\ (lastCall.given /\ lastCall.which = -1) => lastCall.invoked = {EvaluationSlot}
    /\ (lastCall.given /\ lastCall.which \in Trials) => lastCall.invoked = {ADSlot(lastCall.which)}
    /\ ~lastCall.given => lastCall.invoked = {ADSlot(0)}
    /\ exec = "CPU" =>
         /\ lastCall.outcome = "returned"
         /\ lastCall.invoked # {EvaluationSlot} =>
              \A i \in Trials :
                (ADSlot(i) \in lastCall.invoked) <=> (i = lastCall.which /\ lastAD[i] = <<lastCall.input[i]>>)

C1_Witness ==
  /\ lastCall.op = "Mult"
  /\ ~lastCall.given
  /\ lastCall.outcome = "returned"
  /\ lastAD[0] # NoPass

\* C2 (as claimed): GradientMult or ComputeElementGradients for trial field i
\* before any AD pass for i raises no error and reads the cache of trial
\* field i, every entry of which is still its zero-initialised value.
C2_GradientBeforePassReadsZeros ==
  (/\ lastCall.op \in {"GradientMult", "ComputeElementGradients"}
   /\ phase = "configured"
   /\ exec = "CPU"
   /\ lastAD[lastCall.which] = NoPass) =>
    /\ lastCall.outcome = "returned"
    /\ lastCall.invoked \in {{ActionSlot(lastCall.which)}, {ElementSlot(lastCall.which)}}
    /\ \A c \in DOMAIN heap[lastCall.which].data :
         heap[lastCall.which].data[c] = ZeroTensor(DerivativeShape)

\* C3: a derivative cache is mutated only by an AD pass (Mult with
\* which >= 0): every call that is a plain Mult, a GradientMult or a
\* ComputeElementGradients leaves every cache (and its ownership) unchanged.
C3_CacheMutatedOnlyByADPass ==
  [][(phase' = "configured" /\ ~(lastCall'.op = "Mult" /\ lastCall'.which \in Trials))
       => heap' = heap]_vars

C3_Witness ==
  /\ lastCall.op = "Mult"
  /\ lastCall.which = -1
  /\ lastCall.outcome = "returned"
  /\ \E i \in Trials : lastAD[i] # NoPass /\ heap[i].data = DerivativesOfPass(i, lastAD[i][1])

\* C4 (as claimed): each of the two gradient closures of a trial field holds
\* a counted handle to the cache memory.
C4_BothGradientClosuresHoldHandle ==
  \A i \in Trials :
    \A s \in {ActionSlot(i), ElementSlot(i)} : kernels[s].state = "set" => kernels[s].ptr

\* C4 (amended): within one Integral the cache memory of a trial field has a
\* single counted handle, held by the action-of-gradient closure; the
\* element-gradient closure holds an uncounted view only; the memory is live
\* while either gradient closure exists and is freed only after both are
\* destroyed.
C4_SingleHandleOutlivesGradientClosures ==
  \A i \in Trials :
    /\ kernels[ActionSlot(i)].state = "set" =>
         (kernels[ActionSlot(i)].ptr /\ heap[i].state = "live" /\ heap[i].refs = 1)
    /\ kernels[ElementSlot(i)].state = "set" =>
         (~kernels[ElementSlot(i)].ptr /\ kernels[ElementSlot(i)].view /\ heap[i].state = "live")
    /\ heap[i].state = "freed" =>
         (kernels[ActionSlot(i)].state = "destroyed" /\ kernels[ElementSlot(i)].state = "destroyed")

C4_Witness ==
  \E i \in Trials, j \in Trials :
    /\ heap[i].state = "freed"
    /\ kernels[ElementSlot(i)].state = "destroyed"
    /\ kernels[ActionSlot(j)].state = "set"
    /\ kernels[ElementSlot(j)].state = "destroyed"
    /\ heap[j].state = "live"

\* C5 (as claimed): ComputeElementGradients takes the trial index and invokes
\* the element-gradient kernel of exactly that trial field.
C5_ElementGradientsSelectsTrial ==
  lastCall.op = "ComputeElementGradients" => lastCall.invoked = {ElementSlot(lastCall.which)}

\* C6 (as claimed): an Integral for an unsupported execution space fails at
\* construction; no constructed Integral has a call fail on an unset kernel.
C6_UnsupportedExecFailsAtConstruction ==
  ~(~ctorError /\ lastCall.outcome = "bad_function_call")

\* C7: a Mult with which >= 0 that returns writes the residual the plain
\* evaluation kernel writes for the same input, and besides the output it
\* changes only the derivative cache of the selected trial field.
C7_ADResidualMatchesPlain ==
  [][(/\ phase' = "configured"
      /\ lastCall'.op = "Mult"
      /\ lastCall'.which \in Trials
      /\ lastCall'.outcome = "returned") =>
       /\ lastCall'.out = EvaluationKernel(dim, lastCall'.input)
       /\ \A j \in Trials \ {lastCall'.which} : heap'[j] = heap[j]
       /\ kernels' = kernels]_vars

C7_Witness ==
  /\ lastCall.op = "Mult"
  /\ lastCall.which \in Trials
  /\ lastCall.outcome = "returned"
  /\ lastCall.out # Unwritten
  /\ heap[lastCall.which].data # make_shared_array(dim)

\* C8 (as claimed): after an AD pass for trial field i, the block that
\* ComputeElementGradients for i wrote, times a direction d, is what
\* GradientMult for i produces for d, per element.
C8_ActionEqualsBlockTimesDirection ==
  (/\ lastCall.op = "ComputeElementGradients"
   /\ phase = "configured"
   /\ exec = "CPU"
   /\ lastAD[lastCall.which] # NoPass) =>
    \A dU \in Amplitudes, e \in Elements :
      action_of_gradient_kernel(dim, dU, heap[lastCall.which].data)[e]
        = BlockTimesDirection(lastCall.out, dU, e)

\* C9 (as claimed): GradientMult and ComputeElementGradients for trial field
\* i produce their output from the derivative data of the most recent
\* Mult(which == i).
C9_GradientsUseLatestPass ==
  (/\ lastCall.op \in {"GradientMult", "ComputeElementGradients"}
   /\ phase = "configured"
   /\ exec = "CPU"
   /\ lastAD[lastCall.which] # NoPass) =>
    IF lastCall.op = "GradientMult"
    THEN lastCall.out = action_of_gradient_kernel(dim, lastCall.input,
                          DerivativesOfPass(lastCall.which, lastAD[lastCall.which][1]))
    ELSE lastCall.out = element_gradient_kernel(dim,
                          DerivativesOfPass(lastCall.which, lastAD[lastCall.which][1]))

\* C23: the derivative cache of each trial field is a 2-D array of num_elements x
\* quadrature_points_per_element entries with Q = max(test order, trial orders) + 1
\* and quadrature_points_per_element = Q^dim for the element dimension dim the
\* Integral is constructed with: one entry per (element, quadrature point) pair.
C23_CacheHasOneEntryPerQuadraturePoint ==
  \A i \in Trials :
    heap[i].state = "live" =>
      DOMAIN heap[i].data = Elements \X (1 .. Pow(Q, dim))

\* C28: the derivative caches of different trial fields are independent:
\* Mult(which == i) writes only the cache of trial field i and leaves the cache of
\* every trial field j # i unchanged, and GradientMult(which == i) reads only the
\* cache of trial field i: its output is the action-of-gradient kernel applied to
\* that cache, and no cache changes.
C28_TrialCachesAreIndependent ==
  [][/\ (phase' = "configured" /\ lastCall'.op = "Mult" /\ lastCall'.which \in Trials) =>
          \A j \in Trials \ {lastCall'.which} : heap'[j] = heap[j]
     /\ (phase' = "configured" /\ lastCall'.op = "GradientMult"
          /\ lastCall'.outcome = "returned") =>
          /\ heap' = heap
          /\ lastCall'.out =
               action_of_gradient_kernel(dim, lastCall'.input, heap[lastCall'.which].data)]_vars

C28_Witness ==
  /\ phase = "configured"
  /\ lastCall.op = "GradientMult"
  /\ lastCall.which = 1
  /\ lastCall.outcome = "returned"
  /\ lastCall.input = 1
  /\ lastAD[0] # NoPass
  /\ lastAD[1] # NoPass
  /\ heap[0].data # heap[1].data
  /\ lastCall.out # action_of_gradient_kernel(dim, lastCall.input, heap[0].data)

\* C29: after construction for ExecutionSpace::CPU the plain evaluation kernel
\* and, for every trial index, the AD-evaluation, action-of-gradient and
\* element-gradient kernels are all set, so Mult with which in
\* [-1, num_trial_spaces) and GradientMult with which in [0, num_trial_spaces)
\* never invoke an empty callable.
C29_CPUKernelsAreAllSet ==
  (exec = "CPU" /\ phase = "configured") =>
    /\ \A s \in Slots : kernels[s].state = "set"
    /\ (/\ lastCall.op \in {"Mult", "GradientMult"}
        /\ lastCall.which \in Trials \cup {-1}) =>
          /\ lastCall.outcome = "returned"
          /\ lastCall.invoked # {}
          /\ \A s \in lastCall.invoked : kernels[s].state = "set"

C29_Witness ==
  /\ exec = "CPU"
  /\ phase = "configured"
  /\ lastCall.op = "GradientMult"
  /\ lastCall.which = NumTrials - 1
  /\ lastCall.invoked = {ActionSlot(NumTrials - 1)}
  /\ lastCall.outcome = "returned"
  /\ lastAD[NumTrials - 1] # NoPass

-----------------------------------------------------------------------------
(* Properties of the tensor algebra (SpecTensor) *)

\* entry-by-entry comparison of two values of the algebra
SameValue(a, b) ==
  /\ a.kind = b.kind
  /\ a.kind = "double" => a.v = b.v
  /\ a.kind = "tensor" => (a.shape = b.shape /\ \A i \in Idx(a.shape) : a.data[i] = b.data[i])

\* every entry of a is minus the entry of b
IsNegationOf(a, b) ==
  /\ a.kind = b.kind
  /\ a.kind = "double" => a.v = 0 - b.v
  /\ a.kind = "tensor" => (a.shape = b.shape /\ \A i \in Idx(a.shape) : a.data[i] = 0 - b.data[i])

\* C10: zero is an additive identity: zero + x, x + zero and x - zero are x,
\* zero - x is -x (zero + zero and zero - zero are zero), and x += zero,
\* x -= zero leave the tensor x as it was.
C10_ZeroIsAdditiveIdentity ==
  /\ calc.op \in {"zero+x", "x+zero", "x-zero", "x+=zero", "x-=zero"} =>
       SameValue(calc.out, calc.args[1])
  /\ calc.op = "zero-x" => IsNegationOf(calc.out, calc.args[1])

C10_Witness ==
  /\ calc.op = "zero-x"
  /\ calc.args[1].kind = "tensor"
  /\ calc.args[1].shape = <<2, 2>>
  /\ calc.args[1].data[<<0, 1>>] = 1
  /\ calc.out.data[<<0, 1>>] = -1

ZeroProductOps ==
  {"zero*x", "x*zero", "zero/x", "dot(x,zero)", "dot(zero,x)",
   "chain_rule(zero,x)", "chain_rule(x,zero)"}

ZeroOuterOps == {"outer(zero,x)", "outer(x,zero)"}

\* C11 as stated: zero is absorbing under every multiplicative operation: for every
\* scalar or tensor x, zero * x, x * zero, zero / x, dot(x, zero), dot(zero, x),
\* outer(zero, x), outer(x, zero), chain_rule(zero, x) and chain_rule(x, zero) all
\* return zero, regardless of the value or shape of x.
C11_ZeroAbsorbsEveryProduct ==
  (calc.op \in ZeroProductOps \cup ZeroOuterOps /\ IsScalarOrTensor(calc.args[1])) =>
    calc.out = Zero

\* C11 amended: for every scalar or tensor x, zero * x, x * zero, zero / x,
\* dot(x, zero), dot(zero, x), chain_rule(zero, x) and chain_rule(x, zero) return
\* zero; outer(zero, x) and outer(x, zero) return zero for every rank-1 tensor x,
\* and no overload of outer accepts zero next to a scalar or a tensor of another rank.
C11_ZeroAbsorbsWhereOverloaded ==
  /\ (calc.op \in ZeroProductOps /\ IsScalarOrTensor(calc.args[1])) => calc.out = Zero
  /\ (calc.op \in ZeroOuterOps /\ IsVector(calc.args[1])) => calc.out = Zero
  /\ (calc.op \in ZeroOuterOps /\ IsScalarOrTensor(calc.args[1]) /\ ~IsVector(calc.args[1])) =>
       calc.out = IllFormed

C11_Witness ==
  /\ calc.op = "outer(zero,x)"
  /\ calc.args[1].kind = "tensor"
  /\ calc.args[1].shape = <<2>>
  /\ calc.args[1].data[<<1>>] = 1
  /\ calc.out = Zero

\* C12: zero converts to the all-zero value of any shape: as a double it is 0.0,
\* as a tensor<T, n...> every entry is zero; zero(i...), get<i>(zero) and the
\* assignment of any value to zero are zero again.
C12_ZeroConvertsToAllZero ==
  /\ calc.op = "double(zero)" => (calc.out.kind = "double" /\ calc.out.v = 0)
  /\ calc.op = "tensor(zero)" =>
       /\ calc.out.kind = "tensor"
       /\ calc.out.shape = calc.args[1].shape
       /\ \A i \in Idx(calc.args[1].shape) : calc.out.data[i] = 0
  /\ calc.op \in {"zero(i...)", "get<i>(zero)", "zero=x"} => calc.out = Zero

C12_Witness ==
  /\ calc.op = "tensor(zero)"
  /\ calc.args[1].shape = <<2, 2>>
  /\ calc.args[1].data[<<0, 0>>] = 1
  /\ calc.out.data[<<0, 0>>] = 0

\* the matrix product by its definition: entry (i, j) is the sum over k of A[i][k] * B[k][j]
IsMatrixProduct(AB, A, B) ==
  /\ AB.kind = "tensor"
  /\ AB.shape = <<A.shape[1], B.shape[2]>>
  /\ \A i \in 0 .. (A.shape[1] - 1), j \in 0 .. (B.shape[2] - 1) :
       AB.data[<<i, j>>] =
         SumOver(0 .. (A.shape[2] - 1),
                 [k \in 0 .. (A.shape[2] - 1) |-> A.data[<<i, k>>] * B.data[<<k, j>>]])

\* C13: dot is associative on conforming shapes: for matrices A (m x n), B (n x p),
\* C (p x q), dot(dot(A, B), C) equals dot(A, dot(B, C)), where dot(A, B)[i][j] is
\* the sum over k of A[i][k] * B[k][j].
C13_DotIsAssociative ==
  calc.op = "dot(dot(A,B),C)" =>
    /\ SameValue(calc.out.left, calc.out.right)
    /\ IsMatrixProduct(calc.out.ab, calc.args[1], calc.args[2])
    /\ IsMatrixProduct(calc.out.bc, calc.args[2], calc.args[3])

C13_Witness ==
  /\ calc.op = "dot(dot(A,B),C)"
  /\ calc.args[1].data[<<0, 0>>] = 1
  /\ calc.args[1].data[<<0, 1>>] = -1
  /\ calc.args[2].data[<<0, 1>>] = 1
  /\ calc.args[2].data[<<1, 1>>] = 0
  /\ calc.args[3].data[<<1, 0>>] = -1
  /\ calc.out.left.data[<<0, 0>>] = -1

\* C16: make_dual(A) has the shape of A; its entry at multi-index i has the value
\* A(i) and a gradient tensor of the shape of A that is 1 at position i and 0 at
\* every other position; so get_value(make_dual(A)) is A and
\* get_gradient(make_dual(A))(i, j) is 1 if i = j and 0 otherwise.
C16_MakeDualSeedsIdentity ==
  calc.op = "make_dual(A)" =>
    LET A == calc.args[1]
    IN /\ calc.out.dual.shape = A.shape
       /\ \A i \in Idx(A.shape) :
            /\ calc.out.dual.data[i].value = A.data[i]
            /\ calc.out.dual.data[i].gradient.shape = A.shape
            /\ \A j \in Idx(A.shape) :
                 calc.out.dual.data[i].gradient.data[j] = (IF i = j THEN 1 ELSE 0)
       /\ SameValue(calc.out.value, A)
       /\ calc.out.gradient.shape = A.shape \o A.shape
       /\ \A i \in Idx(A.shape), j \in Idx(A.shape) :
            calc.out.gradient.data[i \o j] = (IF i = j THEN 1 ELSE 0)

C16_Witness ==
  /\ calc.op = "make_dual(A)"
  /\ calc.args[1].shape = <<2, 2>>
  /\ calc.args[1].data[<<1, 0>>] = -1
  /\ calc.out.dual.data[<<1, 0>>].value = -1
  /\ calc.out.gradient.data[<<1, 0, 1, 0>>] = 1
  /\ calc.out.gradient.data[<<1, 0, 0, 1>>] = 0

\* C17: get_gradient of a non-dual value (a double, or a tensor of doubles of any
\* shape) is the zero sentinel whatever the value is; get_gradient of a tensor of
\* duals is the tensor whose entry (i..., j...) is the gradient component j of
\* element i.
C17_GetGradientZeroOrGradients ==
  /\ calc.op \in {"get_gradient(double)", "get_gradient(tensor)"} => calc.out = Zero
  /\ calc.op = "get_gradient(duals)" =>
       /\ calc.out.g.shape = calc.out.arg.shape
       /\ \A i \in Idx(calc.out.arg.shape) : calc.out.g.data[i] = calc.out.arg.data[i].gradient
  /\ calc.op = "get_gradient(dual tensors)" =>
       /\ calc.out.g.shape = calc.out.arg.shape \o <<calc.args[2].shape[2]>>
       /\ \A i \in Idx(calc.out.arg.shape) : \A j \in Idx(<<calc.args[2].shape[2]>>) :
            calc.out.g.data[i \o j] = calc.out.arg.data[i].gradient.data[j]

C17_Witness ==
  /\ calc.op = "get_gradient(dual tensors)"
  /\ calc.args[2].data[<<0, 1>>] = 1
  /\ calc.args[2].data[<<1, 0>>] = 0
  /\ calc.out.g.data[<<0, 1>>] = 1
  /\ calc.out.g.data[<<1, 0>>] = 0

\* the sum over all multi-indices t of dx of A[prefix, t] * dx[t]
ContractionAt(A, prefix, dx) ==
  SumOver(Idx(dx.shape), [t \in Idx(dx.shape) |-> A.data[prefix \o t] * dx.data[t]])

\* C18: chain_rule(df_dx, dx) contracts df_dx over all indices of dx: the product
\* for two scalars, the entrywise scaling for a tensor df_dx and a scalar dx, the sum
\* over all i of df_dx(i) * dx(i) when the shapes match, and for df_dx of shape
\* (m, n...) or (m, n, p...) and dx of the trailing shape the tensor whose entry [i]
\* (resp. [i][j]) is the contraction of df_dx[i] (resp. df_dx[i][j]) with dx.
C18_ChainRuleContractsOverDx ==
  calc.op = "chain_rule(df_dx,dx)" =>
    LET df_dx == calc.args[1]
        dx == calc.args[2]
    IN /\ (df_dx.kind = "double" /\ dx.kind = "double") =>
            (calc.out.kind = "double" /\ calc.out.v = df_dx.v * dx.v)
       /\ (df_dx.kind = "tensor" /\ dx.kind = "double") =>
            /\ calc.out.kind = "tensor"
            /\ calc.out.shape = df_dx.shape
            /\ \A i \in Idx(df_dx.shape) : calc.out.data[i] = df_dx.data[i] * dx.v
       /\ (df_dx.kind = "tensor" /\ dx.kind = "tensor") =>
            /\ df_dx.shape = dx.shape =>
                 (calc.out.kind = "double" /\ calc.out.v = ContractionAt(df_dx, <<>>, dx))
            /\ (Len(df_dx.shape) = Len(dx.shape) + 1 /\ TailShape(df_dx.shape) = dx.shape) =>
                 /\ calc.out.kind = "tensor"
                 /\ calc.out.shape = <<df_dx.shape[1]>>
                 /\ \A i \in 0 .. (df_dx.shape[1] - 1) :
                      calc.out.data[<<i>>] = ContractionAt(df_dx, <<i>>, dx)
            /\ (Len(df_dx.shape) = Len(dx.shape) + 2
                  /\ TailShape(TailShape(df_dx.shape)) = dx.shape) =>
                 /\ calc.out.kind = "tensor"
                 /\ calc.out.shape = <<df_dx.shape[1], df_dx.shape[2]>>
                 /\ \A i \in 0 .. (df_dx.shape[1] - 1), j \in 0 .. (df_dx.shape[2] - 1) :
                      calc.out.data[<<i, j>>] = ContractionAt(df_dx, <<i, j>>, dx)

C18_Witness ==
  /\ calc.op = "chain_rule(df_dx,dx)"
  /\ calc.args[1].kind = "tensor"
  /\ calc.args[1].shape = <<2, 2, 2>>
  /\ calc.args[1].data[<<1, 0, 1>>] = -1
  /\ calc.args[2].kind = "tensor"
  /\ calc.args[2].shape = <<2>>
  /\ calc.args[2].data[<<1>>] = 1
  /\ calc.out.data[<<1, 0>>] = -1
  /\ calc.out.data[<<0, 1>>] = 0

\* C20: dot contracts over the shared adjacent index: dot(vector, tensor) sums
\* over the first index of the tensor (result[i...] is the sum over j of
\* A[j] * B[j][i...], for B of rank 2, 3 and 4), dot(tensor, vector) sums over the
\* last index of the tensor (A of rank 2 and 3), dot(v, w) is the sum over i of
\* v[i] * w[i], and dot(u, A, v) equals dot(u, dot(A, v)).
C20_DotContractsAdjacentIndex ==
  /\ (calc.op = "dot(A,B)" /\ IsVector(calc.args[1]) /\ calc.args[2].kind = "tensor") =>
       LET A == calc.args[1]
           B == calc.args[2]
       IN /\ Len(B.shape) = 1 =>
               /\ calc.out.kind = "double"
               /\ calc.out.v = SumOver(Idx(A.shape), [i \in Idx(A.shape) |-> A.data[i] * B.data[i]])
          /\ Len(B.shape) \in {2, 3, 4} =>
               /\ calc.out.kind = "tensor"
               /\ calc.out.shape = TailShape(B.shape)
               /\ \A t \in Idx(TailShape(B.shape)) :
                    calc.out.data[t] =
                      SumOver(0 .. (A.shape[1] - 1),
                              [j \in 0 .. (A.shape[1] - 1) |-> A.data[<<j>>] * B.data[<<j>> \o t]])
  /\ (calc.op = "dot(A,B)" /\ calc.args[1].kind = "tensor" /\ Len(calc.args[1].shape) \in {2, 3}
        /\ IsVector(calc.args[2])) =>
       LET A == calc.args[1]
           B == calc.args[2]
       IN /\ calc.out.kind = "tensor"
          /\ calc.out.shape = FrontShape(A.shape)
          /\ \A t \in Idx(FrontShape(A.shape)) :
               calc.out.data[t] =
                 SumOver(0 .. (B.shape[1] - 1),
                         [k \in 0 .. (B.shape[1] - 1) |-> A.data[t \o <<k>>] * B.data[<<k>>]])
  /\ calc.op = "dot(u,A,v)" => SameValue(calc.out.uAv, calc.out.nested)

C20_Witness ==
  /\ calc.op = "dot(A,B)"
  /\ IsVector(calc.args[1])
  /\ calc.args[1].data[<<0>>] = 1
  /\ calc.args[1].data[<<1>>] = -1
  /\ calc.args[2].kind = "tensor"
  /\ calc.args[2].shape = <<2, 2, 2, 2>>
  /\ calc.args[2].data[<<1, 0, 1, 1>>] = 1
  /\ calc.out.data[<<0, 1, 1>>] = -1
  /\ calc.out.data[<<1, 1, 0>>] = 0

\* C24: dividing a scalar by a tensor, scale / A, returns a tensor of the shape of
\* A whose entry at each index i is scale / A[i], mirroring A / scale, which
\* returns the tensor of the same shape with the entries A[i] / scale.
C24_ScalarOverTensorIsEntrywise ==
  /\ calc.op = "scale/A" =>
       /\ calc.out.kind = "tensor"
       /\ calc.out.shape = calc.args[1].shape
       /\ \A i \in Idx(calc.args[1].shape) :
            calc.out.data[i] = Ratio(calc.args[2].v, calc.args[1].data[i])
  /\ calc.op = "A/scale" =>
       /\ calc.out.kind = "tensor"
       /\ calc.out.shape = calc.args[1].shape
       /\ \A i \in Idx(calc.args[1].shape) :
            calc.out.data[i] = Ratio(calc.args[1].data[i], calc.args[2].v)

\* C30: for every square matrix A, sym(A) + antisym(A) is A, sym(A) is its
\* own transpose and antisym(A) is minus its own transpose; for every matrix B,
\* square or not, transpose(B) has the entries B[j][i] and
\* transpose(transpose(B)) is B.
C30_SymAntisymTranspose ==
  /\ calc.op = "sym+antisym" =>
       /\ calc.out.sum = ToRational(calc.args[1])
       /\ calc.out.sym = transpose(calc.out.sym)
       /\ calc.out.antisym = TensorNegRational(transpose(calc.out.antisym))
  /\ calc.op = "transpose(transpose(B))" =>
       /\ calc.out.twice = calc.args[1]
       /\ calc.out.once.shape = <<calc.args[1].shape[2], calc.args[1].shape[1]>>
       /\ \A i \in Idx(calc.args[1].shape) :
            calc.out.once.data[<<i[2], i[1]>>] = calc.args[1].data[i]

C30_Witness ==
  /\ calc.op = "sym+antisym"
  /\ calc.args[1].data[<<0, 1>>] = 1
  /\ calc.args[1].data[<<1, 0>>] = 0
  /\ calc.out.sym.data[<<0, 1>>] = Ratio(1, 2)
  /\ calc.out.antisym.data[<<1, 0>>] = Ratio(-1, 2)
  /\ calc.out.sum.data[<<0, 1>>] = FromInt(1)

-----------------------------------------------------------------------------
(* Properties of the square-matrix functions (SpecMatrix) *)

\* the determinant of A is not zero (the matrices of the sizes other than 2 and 3
\* that are drawn are diagonal)
IsInvertible(A) ==
  IF A.shape = <<2, 2>> THEN det_2x2(A) # 0
  ELSE IF A.shape = <<3, 3>> THEN det_3x3(A) # 0
  ELSE \A i \in 0 .. (A.shape[1] - 1) : A.data[<<i, i>>] # 0

\* C14: for every invertible square matrix A, inv(A) is a two-sided inverse:
\* dot(A, inv(A)) and dot(inv(A), A) are the identity, for the closed-form 2x2 and
\* 3x3 branches and for the general n x n Gauss-elimination branch.
C14_InvIsTwoSidedInverse ==
  (calc.op = "inv(A)" /\ IsInvertible(calc.args[1])) =>
    /\ calc.out.left = ToRational(DenseIdentity(calc.args[1].shape[1]))
    /\ calc.out.right = ToRational(DenseIdentity(calc.args[1].shape[1]))

\* A equals its transpose
IsSymmetricMatrix(A) ==
  \A i \in 0 .. (A.shape[1] - 1), j \in 0 .. (A.shape[1] - 1) :
    A.data[<<i, j>>] = A.data[<<j, i>>]

\* the determinants of the upper-left 1 x 1, 2 x 2 (and 3 x 3) submatrices of A
LeadingMinors(A) ==
  {A.data[<<0, 0>>], det_2x2(LeadingSubtensor(A))}
    \cup (IF A.shape = <<3, 3>> THEN {det_3x3(A)} ELSE {})

\* C15: is_symmetric_and_positive_definite(A) returns true only if A is symmetric
\* and every leading principal submatrix of A has a determinant strictly greater
\* than zero; in particular it returns false for singular symmetric matrices such
\* as the all-zero matrix.
C15_PositiveDefiniteOnlyIfMinorsPositive ==
  (calc.op = "is_symmetric_and_positive_definite(A)" /\ calc.out = TRUE) =>
    /\ IsSymmetricMatrix(calc.args[1])
    /\ \A minor \in LeadingMinors(calc.args[1]) : minor > 0

\* C19: inv applied to an n x n tensor of dual numbers A returns duals whose values
\* are inv(get_value(A)) and whose gradient at (i, j) is minus the sum over k, l of
\* invA[i][k] * A[k][l].gradient * invA[l][j], the closed-form derivative
\* -inv(A) dA inv(A).
C19_InvOfDualsIsClosedForm ==
  (calc.op = "inv(dual A)" /\ IsInvertible(calc.args[1])) =>
    LET n == calc.args[1].shape[1]
        dA == ToRational(calc.args[2])
    IN /\ calc.out.kind = "tensor"
       /\ calc.out.shape = <<n, n>>
       /\ \E invA \in {Tensor(<<n, n>>, [t \in Idx(<<n, n>>) |-> calc.out.data[t].value])} :
            /\ dot_matrix_matrix_rational(ToRational(calc.args[1]), invA)
                 = ToRational(DenseIdentity(n))
            /\ \A t \in Idx(<<n, n>>) :
                 calc.out.data[t].gradient =
                   RatNeg(dot_matrix_matrix_rational(
                            dot_matrix_matrix_rational(invA, dA), invA).data[t])

\* C21: ddot contracts the two trailing indices of the left argument with the two
\* indices of the right argument: ddot(A4, B)[i][j] is the sum over k, l of
\* A4[i][j][k][l] * B[k][l], ddot(A3, B)[i] is the sum over j, k of
\* A3[i][j][k] * B[j][k], and for two matrices of equal shape ddot(A, B) and
\* inner(A, B) are both the sum over i, j of A[i][j] * B[i][j].
C21_DdotContractsTrailingIndices ==
  (calc.op \in {"ddot(A,B)", "inner(A,B)"} /\ calc.args[1].kind = "tensor"
     /\ IsMatrix(calc.args[2])) =>
    LET A == calc.args[1]
        B == calc.args[2]
        p == B.shape[1]
        q == B.shape[2]
        Pairs == {<<k, l>> : k \in 0 .. (p - 1), l \in 0 .. (q - 1)}
    IN /\ (calc.op = "ddot(A,B)" /\ Rank(A) = 4 /\ SubSeq(A.shape, 3, 4) = B.shape) =>
            /\ calc.out.kind = "tensor"
            /\ calc.out.shape = <<A.shape[1], A.shape[2]>>
            /\ \A i \in 0 .. (A.shape[1] - 1), j \in 0 .. (A.shape[2] - 1) :
                 calc.out.data[<<i, j>>] =
                   SumOver(Pairs, [t \in Pairs |-> A.data[<<i, j, t[1], t[2]>>] * B.data[t]])
       /\ (calc.op = "ddot(A,B)" /\ Rank(A) = 3 /\ SubSeq(A.shape, 2, 3) = B.shape) =>
            /\ calc.out.kind = "tensor"
            /\ calc.out.shape = <<A.shape[1]>>
            /\ \A i \in 0 .. (A.shape[1] - 1) :
                 calc.out.data[<<i>>] =
                   SumOver(Pairs, [t \in Pairs |-> A.data[<<i, t[1], t[2]>>] * B.data[t]])
       /\ (Rank(A) = 2 /\ A.shape = B.shape) =>
            /\ calc.out.kind = "double"
            /\ calc.out.v = SumOver(Pairs, [t \in Pairs |-> A.data[t] * B.data[t]])

C21_Witness ==
  /\ calc.op = "ddot(A,B)"
  /\ calc.args[1].kind = "tensor"
  /\ calc.args[1].shape = <<1, 2, 2>>
  /\ \A t \in Idx(<<1, 2, 2>>) : calc.args[1].data[t] = 1
  /\ calc.args[2].data[<<0, 0>>] = 1
  /\ calc.args[2].data[<<0, 1>>] = 0
  /\ calc.args[2].data[<<1, 0>>] = 1
  /\ calc.args[2].data[<<1, 1>>] = 1
  /\ calc.out.data[<<0>>] = 3

\* C22: the general inv (n > 3) does not detect a zero pivot: for a singular input
\* it completes without signalling an error and returns a tensor obtained by
\* dividing by the zero pivot, so with inf or nan entries.
C22_GeneralInvPropagatesInfNan ==
  (calc.op = "inv(A)" /\ calc.args[1].shape[1] > 3 /\ ~IsInvertible(calc.args[1])) =>
    /\ calc.out.inv.kind = "tensor"
    /\ calc.out.inv.shape = calc.args[1].shape
    /\ \E t \in Idx(calc.args[1].shape) : calc.out.inv.data[t].d = 0

\* C27: the general inv (n > 3) carries out Gauss elimination with partial
\* pivoting on a working copy (pivot search, row swap in the matrix and in the
\* accumulated right-hand side, elimination below the diagonal, back
\* substitution): it returns an n x n tensor, which for an invertible A is the
\* one matrix the elimination can end in, the inverse of A.
C27_GeneralInvIsGaussElimination ==
  (calc.op = "inv(A)" /\ calc.args[1].shape[1] > 3) =>
    /\ calc.out.inv.kind = "tensor"
    /\ calc.out.inv.shape = calc.args[1].shape
    /\ IsInvertible(calc.args[1]) =>
         dot_matrix_matrix_rational(ToRational(calc.args[1]), calc.out.inv)
           = ToRational(DenseIdentity(calc.args[1].shape[1]))

-----------------------------------------------------------------------------
(* Properties of the boundary condition manager (SpecFilter, SpecManager) *)

\* the positions of the generic conditions with the tag of the view, in
\* container order
RECURSIVE Matching(_, _, _)
Matching(container, tag, upTo) ==
  IF upTo = 0 THEN <<>>
  ELSE IF container[upTo].tag = tag
    THEN Append(Matching(container, tag, upTo - 1), upTo)
  ELSE Matching(container, tag, upTo - 1)

\* C25: iterating a FilterView from begin() to end() with operator++ visits
\* exactly the elements of the underlying range that satisfy the predicate, each
\* once and in container order, never dereferences the end iterator, and ends
\* (begin() != end() becomes false, after at most one operator++ per element),
\* also when no element or only the last one satisfies the predicate; so
\* genericsWithTag(tag) yields exactly the generic conditions with that tag.
C25_FilterViewVisitsTheMatches ==
  view.state # "none" =>
    /\ view.end_ \notin view.derefs
    /\ view.curr_ <= view.end_
    /\ view.increments <= Len(manager.other_bdr_)
    /\ view.state \in {"view", "test"} =>
         view.visited = Matching(manager.other_bdr_, view.tag, view.curr_ - 1)
    /\ view.state = "body" =>
         view.visited = Matching(manager.other_bdr_, view.tag, view.curr_)
    /\ view.state = "done" =>
         view.visited = Matching(manager.other_bdr_, view.tag, Len(manager.other_bdr_))

C25_Witness ==
  /\ view.state = "done"
  /\ Len(manager.other_bdr_) = 3
  /\ manager.other_bdr_[1].tag = 0
  /\ manager.other_bdr_[2].tag = 0
  /\ manager.other_bdr_[3].tag = 1
  /\ view.tag = 1
  /\ view.visited = <<3>>

\* C26: after any sequence of BoundaryConditionManager operations (addEssential,
\* addNatural, addGeneric, changes made through the mutable essentials() accessor,
\* and queries), allEssentialTrueDofs() and allEssentialLocalDofs() return the DOF
\* lists of all essential conditions registered at the time of the call, sorted
\* and without duplicates: the cached lists are never returned stale.
C26_EssentialDofsAreNeverStale ==
  /\ returned.op = "allEssentialTrueDofs" =>
       returned.dofs = SortUnique(AppendAll(returned.registered, "true_dofs"))
  /\ returned.op = "allEssentialLocalDofs" =>
       returned.dofs = SortUnique(AppendAll(returned.registered, "local_dofs"))

====
